---- MODULE Spec2Model ----
(***************************************************************************)
(* A model of the opencode-blackbox redaction engine (src/redact.ts and    *)
(* src/ast.ts): the edit planner, the edit applier and the windowed        *)
(* reconciliation of a numbered excerpt.                                   *)
(*                                                                         *)
(* A text is a sequence of characters; a character is a string.  Words of  *)
(* the source language ("export", "add", ...) stand for one character      *)
(* each, so a column is an index into a line.  The two markers are several *)
(* characters wide, so that a replacement changes the length of a line.    *)
(***************************************************************************)
EXTENDS Integers, Sequences, FiniteSets, TLC

VARIABLES
  pc,            \* "idle", "reading" (redactOutput suspended at the disk read), "done"
  op,            \* the entry point that ran: "none", "redactFile", "redactOutput"
  cache,         \* ast.ts: path -> [text, file] or NoEntry
  filePath,      \* redactFile's filePath / redactOutput's title
  text,          \* redactFile's text argument (the file's content)
  window,        \* redactFile's window argument, or NoWindow
  inline,        \* the planned InlineEdits, in push order
  replace,       \* the planned LineEdits, in push order
  blocks,        \* the planned BlockEdits, in push order
  appliedBlocks, \* applyEdits' appliedBlocks, in acceptance order
  redacted,      \* redactFile's return value
  output,        \* redactOutput's output argument
  readError,     \* whether redactOutput's disk read threw
  returned,      \* redactOutput's return value, or Absent
  parses,        \* ast.ts: the number of project.createSourceFile calls so far
  tree,          \* ast.ts: the tree the last sourceFile call returned
  history, \* the sourceFile calls so far: [path, text], in call order
  flows,         \* the calls in flight, when several interleave: flow -> its
                 \* position, its arguments, what it read and what it returned
  sessionToAgent, \* index.ts: session -> the agent's name, or NoAgent
  written,       \* index.ts: session -> the normalized paths written
  allowCache,    \* index.ts: agent's name -> its globs, or NoAllow
  event,         \* the hook that ran last, with its input
  result,        \* what that hook did to the output it was given
  lastChat,      \* session -> the agent of its latest chat.message, and of the
                 \* latest one that named an agent (history)
  wroteFiles     \* the <<session, file>> of the write events (history)

redactVars == <<pc, op, cache, filePath, text, window, inline, replace, blocks,
                appliedBlocks, redacted, output, readError, returned, parses, tree,
                history, flows>>
pluginVars == <<sessionToAgent, written, allowCache, event, result, lastChat, wroteFiles>>
vars == <<redactVars, pluginVars>>

----------------------------------------------------------------------------
(* Characters and strings, as the JavaScript operations compute them.      *)

NL == "\n"
SP == " "
Digits == {"0", "1", "2", "3", "4", "5", "6", "7", "8", "9"}

Min(a, b) == IF a < b THEN a ELSE b
Max(a, b) == IF a > b THEN a ELSE b

\* String.prototype.slice(from) and slice(from, to) on 0-based indices, a
\* negative index counting from the end (also Array.prototype.slice).
SliceIndex(s, i) == IF i < 0 THEN Max(Len(s) + i, 0) ELSE Min(i, Len(s))
Slice(s, from, to) == SubSeq(s, SliceIndex(s, from) + 1, SliceIndex(s, to))
SliceFrom(s, from) == SubSeq(s, SliceIndex(s, from) + 1, Len(s))

\* String.prototype.indexOf(sub): the 0-based index of the first occurrence, or -1.
IndexOf(s, sub) ==
  LET hits == {i \in 0..(Len(s) - Len(sub)) : SubSeq(s, i + 1, i + Len(sub)) = sub}
  IN  IF hits = {} THEN -1 ELSE CHOOSE i \in hits : \A j \in hits : i <= j

\* String.prototype.split('\n').
RECURSIVE SplitAcc(_, _)
SplitAcc(s, cur) ==
  IF s = <<>> THEN <<cur>>
  ELSE IF Head(s) = NL THEN <<cur>> \o SplitAcc(Tail(s), <<>>)
  ELSE SplitAcc(Tail(s), Append(cur, Head(s)))
Split(s) == SplitAcc(s, <<>>)

\* Array.prototype.join('\n').
RECURSIVE Join(_)
Join(ls) ==
  IF ls = <<>> THEN <<>>
  ELSE IF Len(ls) = 1 THEN ls[1]
  ELSE ls[1] \o <<NL>> \o Join(Tail(ls))

\* The match of /^\s*/: the leading whitespace of a line.
RECURSIVE Indent(_)
Indent(s) == IF s # <<>> /\ Head(s) = SP THEN <<SP>> \o Indent(Tail(s)) ELSE <<>>

TrimStart(s) == SubSeq(s, Len(Indent(s)) + 1, Len(s))

RECURSIVE TrimEnd(_)
TrimEnd(s) ==
  IF s # <<>> /\ s[Len(s)] = SP THEN TrimEnd(SubSeq(s, 1, Len(s) - 1)) ELSE s

\* lines[n - 1] = v on a JavaScript array, n the 1-based line: an index past the
\* end grows the array (the holes join as empty lines), a negative index sets a
\* property and leaves the elements alone.
SetLine(ls, n, v) ==
  IF n < 1 THEN ls
  ELSE IF n <= Len(ls) THEN [ls EXCEPT ![n] = v]
  ELSE ls \o [i \in 1..(n - 1 - Len(ls)) |-> <<>>] \o <<v>>

\* lines[n - 1] ?? ''.
LineAt(ls, n) == IF n >= 1 /\ n <= Len(ls) THEN ls[n] ELSE <<>>

hiddenLine == <<"//", SP, "implementation", SP, "hidden">>
hiddenInline == <<"/*", SP, "implementation", SP, "hidden", SP, "*/">>

----------------------------------------------------------------------------
(* The syntax tree.  ts-morph is a library: a tree is the sequence of the   *)
(* candidate nodes in document order, each with what redactFile reads from *)
(* it.  A position is the 1-based line and column getLineAndColumnAtPos    *)
(* gives; an end position is the column just past the node's last          *)
(* character.                                                              *)

Pos(l, c) == [line |-> l, column |-> c]
NoPos == Pos(0, 0)
NoBody == [kind |-> "None", start |-> NoPos, end |-> NoPos]
Block(s, e) == [kind |-> "Block", start |-> s, end |-> e]
Expr(k, s, e) == [kind |-> k, start |-> s, end |-> e]

\* kind      the node's SyntaxKind
\* name      the declared identifier ("" when there is none)
\* exported  FunctionDeclaration: isExported(); class member: the parent's
\*           isExported(); VariableDeclaration: the statement's isExported() or
\*           export modifier; ArrowFunction and FunctionExpression:
\*           isExportedVariable of the parent
\* parent    the kind getParentIfKind is asked for, when the parent has it
\*           (for a VariableDeclaration, the statement of its declaration list)
\* modifier  "private", "protected" or "none"
\* start,end the declaration's span
\* body      getBody(), or for an ExportAssignment the Block child of its expression
\* equals    the EqualsToken's start; initEnd: getInitializer().getEnd()
\* expr      an ExportAssignment's expression
Node(kind, name, exported, parent, modifier, start, end, body, equals, initEnd, expr) ==
  [kind |-> kind, name |-> name, exported |-> exported, parent |-> parent,
   modifier |-> modifier, start |-> start, end |-> end, body |-> body,
   equals |-> equals, initEnd |-> initEnd, expr |-> expr]

FunctionDecl(name, exported, start, end, body) ==
  Node("FunctionDeclaration", name, exported, "SourceFile", "none", start, end,
       body, NoPos, NoPos, NoBody)
Member(kind, name, exported, modifier, start, end, body) ==
  Node(kind, name, exported, "ClassDeclaration", modifier, start, end, body,
       NoPos, NoPos, NoBody)
Property(name, exported, modifier, start, end, equals, initEnd) ==
  Node("PropertyDeclaration", name, exported, "ClassDeclaration", modifier, start,
       end, NoBody, equals, initEnd, NoBody)
VariableDecl(name, exported, start, end, equals, initEnd) ==
  Node("VariableDeclaration", name, exported, "VariableStatement", "none", start,
       end, NoBody, equals, initEnd, NoBody)
Arrow(exported, parent, start, end, body) ==
  Node("ArrowFunction", "", exported, parent, "none", start, end, body, NoPos,
       NoPos, NoBody)
FunctionExpr(exported, parent, start, end, body) ==
  Node("FunctionExpression", "", exported, parent, "none", start, end, body,
       NoPos, NoPos, NoBody)
ExportAssign(start, end, expr, body) ==
  Node("ExportAssignment", "", TRUE, "SourceFile", "none", start, end, body,
       NoPos, NoPos, expr)

----------------------------------------------------------------------------
(* Source files.  A file is a sequence of declarations, each one of the    *)
(* shapes below: its lines, and the nodes the parser finds in them (line   *)
(* numbers relative to the declaration's first line).                      *)

ShapeNames ==
  {"doc", "fn3", "fn4", "fnTight", "fn2", "fn2brace", "fn1", "helper",
   "hiddenValue", "cls", "var1", "arrow1", "arrow3", "arrow2", "arrowBlock1",
   "obj", "defId", "defArrow3", "defArrowExpr", "funcExpr3", "clsProp",
   "varMulti2", "arrowLate", "arrowLate2"}

ExportFunction(name) == <<"export", SP, "function", SP, name, "(", ")", SP, "{">>
ExportConst(name) == <<"export", SP, "const", SP, name, SP, "=">>
ArrowHead == <<SP, "(", ")", SP, "=>", SP, "{">>

Shape(s) ==
  CASE s = "doc" ->
         \* /** doc */
         [lines |-> << <<"/**", "doc", "*/">> >>, nodes |-> <<>>]
    [] s = "fn3" ->
         \* export function add() {      (tests/fixtures/input.ts 18-21)
         \*   a+b
         \* }
         [lines |-> <<ExportFunction("add"), <<SP, "a+b">>, <<"}">> >>,
          nodes |-> <<FunctionDecl("add", TRUE, Pos(1, 1), Pos(3, 2),
                                   Block(Pos(1, 9), Pos(3, 2)))>>]
    [] s = "fn4" ->
         \* export function keep() {     (tests/fixtures/input.ts 23-26)
         \*   k1
         \*   k2
         \* }
         [lines |-> <<ExportFunction("keep"), <<SP, "k1">>, <<SP, "k2">>, <<"}">> >>,
          nodes |-> <<FunctionDecl("keep", TRUE, Pos(1, 1), Pos(4, 2),
                                   Block(Pos(1, 9), Pos(4, 2)))>>]
    [] s = "fnTight" ->
         \* export function tight() { t0
         \*   t1
         \* t2 }
         [lines |-> <<ExportFunction("tight") \o <<SP, "t0">>, <<SP, "t1">>,
                      <<"t2", SP, "}">> >>,
          nodes |-> <<FunctionDecl("tight", TRUE, Pos(1, 1), Pos(3, 4),
                                   Block(Pos(1, 9), Pos(3, 4)))>>]
    [] s = "fn2" ->
         \* export function two() {
         \* }
         [lines |-> <<ExportFunction("two"), <<"}">> >>,
          nodes |-> <<FunctionDecl("two", TRUE, Pos(1, 1), Pos(2, 2),
                                   Block(Pos(1, 9), Pos(2, 2)))>>]
    [] s = "fn2brace" ->
         \* export function opt(o:{}) {
         \* }
         [lines |-> << <<"export", SP, "function", SP, "opt", "(", "o", ":", "{", "}",
                        ")", SP, "{">>, <<"}">> >>,
          nodes |-> <<FunctionDecl("opt", TRUE, Pos(1, 1), Pos(2, 2),
                                   Block(Pos(1, 13), Pos(2, 2)))>>]
    [] s = "fn1" ->
         \* export function one() { o1 }
         [lines |-> <<ExportFunction("one") \o <<SP, "o1", SP, "}">> >>,
          nodes |-> <<FunctionDecl("one", TRUE, Pos(1, 1), Pos(1, 14),
                                   Block(Pos(1, 9), Pos(1, 14)))>>]
    [] s = "helper" ->
         \* function helperSecret() {    (tests/fixtures/input.ts 54-56)
         \*   h1
         \* }
         [lines |-> << <<"function", SP, "helperSecret", "(", ")", SP, "{">>,
                       <<SP, "h1">>, <<"}">> >>,
          nodes |-> <<FunctionDecl("helperSecret", FALSE, Pos(1, 1), Pos(3, 2),
                                   Block(Pos(1, 7), Pos(3, 2)))>>]
    [] s = "hiddenValue" ->
         \* const hiddenValue = 42       (tests/fixtures/input.ts 58)
         [lines |-> << <<"const", SP, "hiddenValue", SP, "=", SP, "42">> >>,
          nodes |-> <<VariableDecl("hiddenValue", FALSE, Pos(1, 1), Pos(1, 8),
                                   Pos(1, 5), Pos(1, 8))>>]
    [] s = "cls" ->
         \* export class Counter {
         \*  /** doc */
         \*  private secret():T { s1 }
         \*  inc() {
         \*   i1
         \*  }
         \* }
         [lines |-> << <<"export", SP, "class", SP, "Counter", SP, "{">>,
                       <<SP, "/**", "doc", "*/">>,
                       <<SP, "private", SP, "secret", "(", ")", ":", "T", SP, "{",
                         SP, "s1", SP, "}">>,
                       <<SP, "inc", "(", ")", SP, "{">>,
                       <<SP, SP, "i1">>,
                       <<SP, "}">>,
                       <<"}">> >>,
          nodes |-> <<Member("MethodDeclaration", "secret", TRUE, "private",
                             Pos(3, 2), Pos(3, 15), Block(Pos(3, 10), Pos(3, 15))),
                      Member("MethodDeclaration", "inc", TRUE, "none",
                             Pos(4, 2), Pos(6, 3), Block(Pos(4, 6), Pos(6, 3)))>>]
    [] s = "var1" ->
         \* export const x = 1
         [lines |-> <<ExportConst("x") \o <<SP, "1">> >>,
          nodes |-> <<VariableDecl("x", TRUE, Pos(1, 1), Pos(1, 10),
                                   Pos(1, 7), Pos(1, 10))>>]
    [] s = "arrow1" ->
         \* export const sq = (x) => x*x   (tests/fixtures/input.ts 28)
         [lines |-> <<ExportConst("sq") \o
                      <<SP, "(", "x", ")", SP, "=>", SP, "x", "*", "x">> >>,
          nodes |-> <<VariableDecl("sq", TRUE, Pos(1, 1), Pos(1, 18),
                                   Pos(1, 7), Pos(1, 18)),
                      Arrow(TRUE, "VariableDeclaration", Pos(1, 9), Pos(1, 18),
                            Expr("BinaryExpression", Pos(1, 15), Pos(1, 18)))>>]
    [] s = "arrow3" ->
         \* export const divide = () => {  (tests/fixtures/input.ts 30-32)
         \*   d1
         \* }
         [lines |-> <<ExportConst("divide") \o ArrowHead, <<SP, "d1">>, <<"}">> >>,
          nodes |-> <<VariableDecl("divide", TRUE, Pos(1, 1), Pos(3, 2),
                                   Pos(1, 7), Pos(3, 2)),
                      Arrow(TRUE, "VariableDeclaration", Pos(1, 9), Pos(3, 2),
                            Block(Pos(1, 14), Pos(3, 2)))>>]
    [] s = "arrow2" ->
         \* export const baz = () => {
         \* }
         [lines |-> <<ExportConst("baz") \o ArrowHead, <<"}">> >>,
          nodes |-> <<VariableDecl("baz", TRUE, Pos(1, 1), Pos(2, 2),
                                   Pos(1, 7), Pos(2, 2)),
                      Arrow(TRUE, "VariableDeclaration", Pos(1, 9), Pos(2, 2),
                            Block(Pos(1, 14), Pos(2, 2)))>>]
    [] s = "arrowBlock1" ->
         \* export const k = () => { k0 }
         [lines |-> <<ExportConst("k") \o ArrowHead \o <<SP, "k0", SP, "}">> >>,
          nodes |-> <<VariableDecl("k", TRUE, Pos(1, 1), Pos(1, 19),
                                   Pos(1, 7), Pos(1, 19)),
                      Arrow(TRUE, "VariableDeclaration", Pos(1, 9), Pos(1, 19),
                            Block(Pos(1, 14), Pos(1, 19)))>>]
    [] s = "obj" ->
         \* export const mathUtils = {     (tests/fixtures/comprehensive.ts 450-)
         \*  /** doc */
         \*  PI:3
         \* }
         [lines |-> <<ExportConst("mathUtils") \o <<SP, "{">>,
                      <<SP, "/**", "doc", "*/">>, <<SP, "PI", ":", "3">>, <<"}">> >>,
          nodes |-> <<VariableDecl("mathUtils", TRUE, Pos(1, 1), Pos(4, 2),
                                   Pos(1, 7), Pos(4, 2))>>]
    [] s = "defId" ->
         \* export default plugin          (tests/fixtures/input.ts 64)
         [lines |-> << <<"export", SP, "default", SP, "plugin">> >>,
          nodes |-> <<ExportAssign(Pos(1, 1), Pos(1, 6),
                                   Expr("Identifier", Pos(1, 5), Pos(1, 6)), NoBody)>>]
    [] s = "defArrow3" ->
         \* export default () => {
         \*   e1
         \* }
         [lines |-> << <<"export", SP, "default">> \o ArrowHead, <<SP, "e1">>, <<"}">> >>,
          nodes |-> <<ExportAssign(Pos(1, 1), Pos(3, 2),
                                   Expr("ArrowFunction", Pos(1, 5), Pos(3, 2)),
                                   Block(Pos(1, 10), Pos(3, 2))),
                      Arrow(FALSE, "ExportAssignment", Pos(1, 5), Pos(3, 2),
                            Block(Pos(1, 10), Pos(3, 2)))>>]
    [] s = "defArrowExpr" ->
         \* export default () =>
         \*   y*y
         [lines |-> << <<"export", SP, "default", SP, "(", ")", SP, "=>">>,
                       <<SP, "y", "*", "y">> >>,
          nodes |-> <<ExportAssign(Pos(1, 1), Pos(2, 5),
                                   Expr("ArrowFunction", Pos(1, 5), Pos(2, 5)), NoBody),
                      Arrow(FALSE, "ExportAssignment", Pos(1, 5), Pos(2, 5),
                            Expr("BinaryExpression", Pos(2, 2), Pos(2, 5)))>>]
    [] s = "funcExpr3" ->
         \* export const fe = function() {
         \*   f1
         \* }
         [lines |-> <<ExportConst("fe") \o <<SP, "function", "(", ")", SP, "{">>,
                      <<SP, "f1">>, <<"}">> >>,
          nodes |-> <<VariableDecl("fe", TRUE, Pos(1, 1), Pos(3, 2),
                                   Pos(1, 7), Pos(3, 2)),
                      FunctionExpr(TRUE, "VariableDeclaration", Pos(1, 9), Pos(3, 2),
                                   Block(Pos(1, 13), Pos(3, 2)))>>]
    [] s = "clsProp" ->
         \* export class P {
         \*  get cur() { g1 }
         \*  table = [
         \*   7,
         \*  ]
         \* }
         [lines |-> << <<"export", SP, "class", SP, "P", SP, "{">>,
                       <<SP, "get", SP, "cur", "(", ")", SP, "{", SP, "g1", SP, "}">>,
                       <<SP, "table", SP, "=", SP, "[">>,
                       <<SP, SP, "7", ",">>,
                       <<SP, "]">>,
                       <<"}">> >>,
          nodes |-> <<Member("GetAccessor", "cur", TRUE, "none",
                             Pos(2, 2), Pos(2, 13), Block(Pos(2, 8), Pos(2, 13))),
                      Property("table", TRUE, "none", Pos(3, 2), Pos(5, 3),
                               Pos(3, 4), Pos(5, 3))>>]
    [] s = "varMulti2" ->
         \* export const t = [
         \* ]
         [lines |-> <<ExportConst("t") \o <<SP, "[">>, <<"]">> >>,
          nodes |-> <<VariableDecl("t", TRUE, Pos(1, 1), Pos(2, 2),
                                   Pos(1, 7), Pos(2, 2))>>]
    [] s = "arrowLate" ->
         \* export const late =
         \*  () => {
         \*   l1
         \*  }
         [lines |-> <<ExportConst("late"), ArrowHead, <<SP, SP, "l1">>, <<SP, "}">> >>,
          nodes |-> <<VariableDecl("late", TRUE, Pos(1, 1), Pos(4, 3),
                                   Pos(1, 7), Pos(4, 3)),
                      Arrow(TRUE, "VariableDeclaration", Pos(2, 2), Pos(4, 3),
                            Block(Pos(2, 7), Pos(4, 3)))>>]
    [] s = "arrowLate2" ->
         \* export const late2 =
         \*  () => {
         \*  }
         [lines |-> <<ExportConst("late2"), ArrowHead, <<SP, "}">> >>,
          nodes |-> <<VariableDecl("late2", TRUE, Pos(1, 1), Pos(3, 3),
                                   Pos(1, 7), Pos(3, 3)),
                      Arrow(TRUE, "VariableDeclaration", Pos(2, 2), Pos(3, 3),
                            Block(Pos(2, 7), Pos(3, 3)))>>]

\* The shapes, computed once.
ShapeTable == [s \in ShapeNames |-> Shape(s)]

\* A position, a body and a node moved down by d lines.
ShiftPos(p, d) == IF p = NoPos THEN NoPos ELSE Pos(p.line + d, p.column)
ShiftBody(b, d) == [b EXCEPT !.start = ShiftPos(@, d), !.end = ShiftPos(@, d)]
ShiftNode(n, d) ==
  [n EXCEPT !.start = ShiftPos(@, d), !.end = ShiftPos(@, d),
            !.body = ShiftBody(@, d), !.equals = ShiftPos(@, d),
            !.initEnd = ShiftPos(@, d), !.expr = ShiftBody(@, d)]

\* The file made of the declarations ds, one after the other.
RECURSIVE FileLines(_)
FileLines(ds) ==
  IF ds = <<>> THEN <<>> ELSE ShapeTable[Head(ds)].lines \o FileLines(Tail(ds))

\* The files: one declaration, or two of at most MaxLines lines together.
MaxLines == 8

DeclSeqs ==
  {<<a>> : a \in ShapeNames}
    \cup {ds \in {<<a, b>> : a \in ShapeNames, b \in ShapeNames} :
            Len(ShapeTable[ds[1]].lines) + Len(ShapeTable[ds[2]].lines) <= MaxLines}

\* Source texts.
SourceText(ds) == Join(FileLines(ds))
Texts == {SourceText(ds) : ds \in DeclSeqs}

\* The parser: the declaration that starts at line d + 1 is the shape whose
\* lines stand there (no shape's first line is another's).
ShapeAt(lines, d) ==
  CHOOSE s \in ShapeNames :
    LET k == Len(ShapeTable[s].lines)
    IN  d + k <= Len(lines) /\ SubSeq(lines, d + 1, d + k) = ShapeTable[s].lines

RECURSIVE ParseFrom(_, _)
ParseFrom(lines, d) ==
  IF d >= Len(lines) THEN <<>>
  ELSE LET sh == ShapeTable[ShapeAt(lines, d)]
       IN  [i \in 1..Len(sh.nodes) |-> ShiftNode(sh.nodes[i], d)]
             \o ParseFrom(lines, d + Len(sh.lines))

\* project.createSourceFile(filePath, text, { overwrite: true }).
Parse(t) == ParseFrom(Split(t), 0)

----------------------------------------------------------------------------
(* src/ast.ts: the tree cache.                                             *)

Paths == {"a.ts", "b.ts"}
NoEntry == [present |-> FALSE, text |-> <<>>, file |-> <<>>]

\* sourceFile(filePath, text): the cached tree when the cached text is this
\* text, else a fresh parse that replaces the entry.
\* sourceFile that returns the tree of any entry the path has, whatever its text.
sourceFileStale(c, path, t) ==
  IF c[path].present
  THEN [cache |-> c, file |-> c[path].file, parsed |-> FALSE]
  ELSE LET file == Parse(t)
       IN  [cache |-> [c EXCEPT ![path] = [present |-> TRUE, text |-> t, file |-> file]],
            file |-> file, parsed |-> TRUE]

\* parsed: whether the call went through project.createSourceFile.
sourceFile(c, path, t) ==
  IF c[path].present /\ c[path].text = t
  THEN [cache |-> c, file |-> c[path].file, parsed |-> FALSE]
  ELSE LET file == Parse(t)
       IN  [cache |-> [c EXCEPT ![path] = [present |-> TRUE, text |-> t, file |-> file]],
            file |-> file, parsed |-> TRUE]

----------------------------------------------------------------------------
(* src/redact.ts: the edit planner.  A plan is the three arrays redactFile *)
(* passes around.                                                          *)

NoWindow == [start |-> -1, end |-> -1]
EmptyPlan == [inline |-> <<>>, replace |-> <<>>, blocks |-> <<>>]

InlineEdit(line, start, end, t) == [line |-> line, start |-> start, end |-> end, text |-> t]
LineEdit(line, t) == [line |-> line, text |-> t]
BlockEdit(start, end, line, priority) ==
  [start |-> start, end |-> end, line |-> line, priority |-> priority]

\* lineCol(node, pos + k), for a position pos + k on the line of pos.
lineCol(p, k) == Pos(p.line, p.column + k)

\* redactBlock that takes the two-line case also for a body with one interior line.
redactBlockWideTwoLine(body, lines, plan, priority) ==
  LET startLine == body.start.line
      endLine == body.end.line
  IN  IF startLine = endLine
      THEN LET start == lineCol(body.start, 1)
               end == lineCol(body.end, -1)
           IN  [plan EXCEPT !.inline =
                  Append(@, InlineEdit(start.line, start.column, end.column,
                                       <<SP>> \o hiddenInline \o <<SP>>))]
      ELSE IF startLine + 2 >= endLine
      THEN LET line == LineAt(lines, startLine)
               braceIndex == IndexOf(line, <<"{">>)
               insert == IF braceIndex = -1
                         THEN line \o <<SP>> \o hiddenLine
                         ELSE Slice(line, 0, braceIndex + 1) \o <<SP>> \o hiddenLine
                                \o SliceFrom(line, braceIndex + 1)
           IN  [plan EXCEPT !.replace = Append(@, LineEdit(startLine, insert))]
      ELSE [plan EXCEPT !.blocks =
              Append(@, BlockEdit(startLine + 1, endLine - 1, startLine + 1, priority))]

\* redactBlock whose block runs through the body's closing line.
redactBlockThroughClosing(body, lines, plan, priority) ==
  LET startLine == body.start.line
      endLine == body.end.line
  IN  IF startLine = endLine
      THEN LET start == lineCol(body.start, 1)
               end == lineCol(body.end, -1)
           IN  [plan EXCEPT !.inline =
                  Append(@, InlineEdit(start.line, start.column, end.column,
                                       <<SP>> \o hiddenInline \o <<SP>>))]
      ELSE IF startLine + 1 = endLine
      THEN LET line == LineAt(lines, startLine)
               braceIndex == IndexOf(line, <<"{">>)
               insert == IF braceIndex = -1
                         THEN line \o <<SP>> \o hiddenLine
                         ELSE Slice(line, 0, braceIndex + 1) \o <<SP>> \o hiddenLine
                                \o SliceFrom(line, braceIndex + 1)
           IN  [plan EXCEPT !.replace = Append(@, LineEdit(startLine, insert))]
      ELSE [plan EXCEPT !.blocks =
              Append(@, BlockEdit(startLine + 1, endLine, startLine + 1, priority))]

redactBlock(body, lines, plan, priority) ==
  LET startLine == body.start.line
      endLine == body.end.line
  IN  IF startLine = endLine
      THEN LET start == lineCol(body.start, 1)
               end == lineCol(body.end, -1)
           IN  [plan EXCEPT !.inline =
                  Append(@, InlineEdit(start.line, start.column, end.column,
                                       <<SP>> \o hiddenInline \o <<SP>>))]
      ELSE IF startLine + 1 = endLine
      THEN LET line == LineAt(lines, startLine)
               braceIndex == IndexOf(line, <<"{">>)
               insert == IF braceIndex = -1
                         THEN line \o <<SP>> \o hiddenLine
                         ELSE Slice(line, 0, braceIndex + 1) \o <<SP>> \o hiddenLine
                                \o SliceFrom(line, braceIndex + 1)
           IN  [plan EXCEPT !.replace = Append(@, LineEdit(startLine, insert))]
      ELSE [plan EXCEPT !.blocks =
              Append(@, BlockEdit(startLine + 1, endLine - 1, startLine + 1, priority))]

redactExpression(node, lines, plan, priority) ==
  LET start == lineCol(node.start, 0)
      end == lineCol(node.end, 0)
  IN  IF start.line = end.line
      THEN [plan EXCEPT !.inline =
              Append(@, InlineEdit(start.line, start.column, end.column, hiddenInline))]
      ELSE [plan EXCEPT !.blocks =
              Append(@, BlockEdit(start.line, end.line, start.line, priority))]

\* redactInitializer without the replacement of the initializer's last line.
redactInitializerFirstLineOnly(node, lines, plan, priority) ==
  IF node.initEnd = NoPos \/ node.equals = NoPos THEN plan
  ELSE
    LET start == lineCol(node.equals, 0)
        end == lineCol(node.initEnd, 0)
    IN  IF start.line = end.line
        THEN [plan EXCEPT !.inline =
                Append(@, InlineEdit(start.line, start.column, end.column,
                                     <<"=", SP>> \o hiddenInline))]
        ELSE
          LET first == LineAt(lines, start.line)
              prefix == TrimEnd(Slice(first, 0, start.column - 1))
              last == LineAt(lines, end.line)
              indent == Indent(last)
          IN  [plan EXCEPT
                 !.replace = @ \o
                   <<LineEdit(start.line, prefix \o <<"=", SP>> \o hiddenInline)>>,
                 !.blocks = Append(@, BlockEdit(start.line + 1, end.line - 1,
                                                start.line + 1, priority))]

\* redactInitializer and redactVariableInitializer have the same body.
redactInitializer(node, lines, plan, priority) ==
  IF node.initEnd = NoPos \/ node.equals = NoPos THEN plan
  ELSE
    LET start == lineCol(node.equals, 0)
        end == lineCol(node.initEnd, 0)
    IN  IF start.line = end.line
        THEN [plan EXCEPT !.inline =
                Append(@, InlineEdit(start.line, start.column, end.column,
                                     <<"=", SP>> \o hiddenInline))]
        ELSE
          LET first == LineAt(lines, start.line)
              prefix == TrimEnd(Slice(first, 0, start.column - 1))
              last == LineAt(lines, end.line)
              indent == Indent(last)
          IN  [plan EXCEPT
                 !.replace = @ \o
                   <<LineEdit(start.line, prefix \o <<"=", SP>> \o hiddenInline),
                     LineEdit(end.line, indent \o TrimStart(SliceFrom(last, end.column - 1)))>>,
                 !.blocks = Append(@, BlockEdit(start.line + 1, end.line - 1,
                                                start.line + 1, priority))]

redactVariableInitializer(node, lines, plan, priority) ==
  redactInitializer(node, lines, plan, priority)

isExportedClassMember(node) ==
  /\ node.parent = "ClassDeclaration"
  /\ node.exported
  /\ node.modifier # "private"
  /\ node.modifier # "protected"

isExportedVariable(node) == node.parent = "VariableStatement" /\ node.exported

isExportedArrowFunction(node) == node.parent = "VariableDeclaration" /\ node.exported

isExportedFunctionExpression(node) == node.parent = "VariableDeclaration" /\ node.exported

\* PlanNode with the arrow-function bodies at the priority of the initializers.
PlanNodeArrowAsInitializer(node, lines, plan) ==
  CASE node.kind = "FunctionDeclaration" ->
         IF ~node.exported \/ node.body.kind = "None" THEN plan
         ELSE redactBlock(node.body, lines, plan, 3)
    [] node.kind \in {"MethodDeclaration", "Constructor", "GetAccessor", "SetAccessor"} ->
         IF ~isExportedClassMember(node) \/ node.body.kind = "None" THEN plan
         ELSE redactBlock(node.body, lines, plan, 3)
    [] node.kind = "PropertyDeclaration" ->
         IF ~isExportedClassMember(node) \/ node.initEnd = NoPos THEN plan
         ELSE redactInitializer(node, lines, plan, 3)
    [] node.kind = "ExportAssignment" ->
         IF node.expr.kind = "None" THEN plan
         ELSE IF node.expr.kind = "ArrowFunction"
         THEN IF node.body.kind = "Block"
              THEN redactBlock(node.body, lines, plan, 3)
              ELSE redactExpression(node.expr, lines, plan, 3)
         ELSE IF node.expr.kind = "FunctionExpression"
         THEN IF node.body.kind # "Block" THEN plan
              ELSE redactBlock(node.body, lines, plan, 3)
         ELSE plan
    [] node.kind = "VariableDeclaration" ->
         IF node.initEnd = NoPos \/ ~isExportedVariable(node) THEN plan
         ELSE redactVariableInitializer(node, lines, plan, 2)
    [] node.kind = "ArrowFunction" ->
         IF ~isExportedArrowFunction(node) THEN plan
         ELSE IF node.body.kind = "Block"
         THEN redactBlock(node.body, lines, plan, 2)
         ELSE redactExpression(node.body, lines, plan, 2)
    [] node.kind = "FunctionExpression" ->
         IF ~isExportedFunctionExpression(node) \/ node.body.kind = "None" THEN plan
         ELSE redactBlock(node.body, lines, plan, 2)
    [] OTHER -> plan

\* PlanNode with every other default-export expression redacted as an expression.
PlanNodeAnyDefault(node, lines, plan) ==
  CASE node.kind = "FunctionDeclaration" ->
         IF ~node.exported \/ node.body.kind = "None" THEN plan
         ELSE redactBlock(node.body, lines, plan, 3)
    [] node.kind \in {"MethodDeclaration", "Constructor", "GetAccessor", "SetAccessor"} ->
         IF ~isExportedClassMember(node) \/ node.body.kind = "None" THEN plan
         ELSE redactBlock(node.body, lines, plan, 3)
    [] node.kind = "PropertyDeclaration" ->
         IF ~isExportedClassMember(node) \/ node.initEnd = NoPos THEN plan
         ELSE redactInitializer(node, lines, plan, 3)
    [] node.kind = "ExportAssignment" ->
         IF node.expr.kind = "None" THEN plan
         ELSE IF node.expr.kind = "ArrowFunction"
         THEN IF node.body.kind = "Block"
              THEN redactBlock(node.body, lines, plan, 3)
              ELSE redactExpression(node.expr, lines, plan, 3)
         ELSE IF node.expr.kind = "FunctionExpression"
         THEN IF node.body.kind # "Block" THEN plan
              ELSE redactBlock(node.body, lines, plan, 3)
         ELSE redactExpression(node.expr, lines, plan, 3)
    [] node.kind = "VariableDeclaration" ->
         IF node.initEnd = NoPos \/ ~isExportedVariable(node) THEN plan
         ELSE redactVariableInitializer(node, lines, plan, 2)
    [] node.kind = "ArrowFunction" ->
         IF ~isExportedArrowFunction(node) THEN plan
         ELSE IF node.body.kind = "Block"
         THEN redactBlock(node.body, lines, plan, 1)
         ELSE redactExpression(node.body, lines, plan, 1)
    [] node.kind = "FunctionExpression" ->
         IF ~isExportedFunctionExpression(node) \/ node.body.kind = "None" THEN plan
         ELSE redactBlock(node.body, lines, plan, 2)
    [] OTHER -> plan

\* The body of each of redactFile's loops, for one node of the loop's kind.
PlanNode(node, lines, plan) ==
  CASE node.kind = "FunctionDeclaration" ->
         IF ~node.exported \/ node.body.kind = "None" THEN plan
         ELSE redactBlock(node.body, lines, plan, 3)
    [] node.kind \in {"MethodDeclaration", "Constructor", "GetAccessor", "SetAccessor"} ->
         IF ~isExportedClassMember(node) \/ node.body.kind = "None" THEN plan
         ELSE redactBlock(node.body, lines, plan, 3)
    [] node.kind = "PropertyDeclaration" ->
         IF ~isExportedClassMember(node) \/ node.initEnd = NoPos THEN plan
         ELSE redactInitializer(node, lines, plan, 3)
    [] node.kind = "ExportAssignment" ->
         IF node.expr.kind = "None" THEN plan
         ELSE IF node.expr.kind = "ArrowFunction"
         THEN IF node.body.kind = "Block"
              THEN redactBlock(node.body, lines, plan, 3)
              ELSE redactExpression(node.expr, lines, plan, 3)
         ELSE IF node.expr.kind = "FunctionExpression"
         THEN IF node.body.kind # "Block" THEN plan
              ELSE redactBlock(node.body, lines, plan, 3)
         ELSE plan
    [] node.kind = "VariableDeclaration" ->
         IF node.initEnd = NoPos \/ ~isExportedVariable(node) THEN plan
         ELSE redactVariableInitializer(node, lines, plan, 2)
    [] node.kind = "ArrowFunction" ->
         IF ~isExportedArrowFunction(node) THEN plan
         ELSE IF node.body.kind = "Block"
         THEN redactBlock(node.body, lines, plan, 1)
         ELSE redactExpression(node.body, lines, plan, 1)
    [] node.kind = "FunctionExpression" ->
         IF ~isExportedFunctionExpression(node) \/ node.body.kind = "None" THEN plan
         ELSE redactBlock(node.body, lines, plan, 2)
    [] OTHER -> plan

\* file.getDescendantsOfKind(kind): the nodes of the kind, in document order.
getDescendantsOfKind(file, kind) == SelectSeq(file, LAMBDA n : n.kind = kind)

\* for (const node of nodes) { ... }
RECURSIVE PlanLoop(_, _, _)
PlanLoop(nodes, lines, plan) ==
  IF nodes = <<>> THEN plan
  ELSE PlanLoop(Tail(nodes), lines, PlanNode(Head(nodes), lines, plan))

\* The order of redactFile's loops.
LoopKinds ==
  <<"FunctionDeclaration", "MethodDeclaration", "Constructor", "GetAccessor",
    "SetAccessor", "PropertyDeclaration", "ExportAssignment",
    "VariableDeclaration", "ArrowFunction", "FunctionExpression">>

RECURSIVE PlanKinds(_, _, _, _)
PlanKinds(kinds, file, lines, plan) ==
  IF kinds = <<>> THEN plan
  ELSE PlanKinds(Tail(kinds), file, lines,
                 PlanLoop(getDescendantsOfKind(file, Head(kinds)), lines, plan))

PlanEdits(file, lines) == PlanKinds(LoopKinds, file, lines, EmptyPlan)

----------------------------------------------------------------------------
(* src/redact.ts: the edit applier.                                        *)

\* rangesOverlap with strict comparisons: ranges that only share an end line
\* (or are the same single line) pass as disjoint.
rangesOverlapStrict(left, right) == left.start < right.end /\ right.start < left.end

rangesOverlap(left, right) == left.start <= right.end /\ right.start <= left.end

\* CompareBlocks with the lower priority first.
CompareBlocksAscending(a, b) ==
  IF a.priority - b.priority # 0 THEN a.priority - b.priority ELSE a.start - b.start

\* The comparator of the block sort: a negative value puts a first.
CompareBlocks(a, b) ==
  IF b.priority - a.priority # 0 THEN b.priority - a.priority ELSE a.start - b.start

\* Array.prototype.sort with that comparator; the sort is stable.
RECURSIVE InsertBlock(_, _)
InsertBlock(sorted, b) ==
  IF sorted = <<>> THEN <<b>>
  ELSE IF CompareBlocks(b, Head(sorted)) < 0 THEN <<b>> \o sorted
  ELSE <<Head(sorted)>> \o InsertBlock(Tail(sorted), b)

RECURSIVE SortBlocks(_)
SortBlocks(bs) ==
  IF bs = <<>> THEN <<>>
  ELSE InsertBlock(SortBlocks(SubSeq(bs, 1, Len(bs) - 1)), bs[Len(bs)])

\* The window applyEdits works with.
Windowed(lines, w) == IF w = NoWindow THEN [start |-> 1, end |-> Len(lines)] ELSE w

\* FilterBlocks that keeps the blocks lying inside the window only.
FilterBlocksInside(bs, windowed) ==
  SortBlocks(SelectSeq(bs, LAMBDA b : b.start >= windowed.start /\ b.end <= windowed.end))

FilterBlocks(bs, windowed) ==
  SortBlocks(SelectSeq(bs, LAMBDA b : b.end >= windowed.start /\ b.start <= windowed.end))

\* for (let i = from; i <= to; i += 1) lines[i - 1] = ''
RECURSIVE BlankLines(_, _, _)
BlankLines(lines, from, to) ==
  IF from > to THEN lines ELSE BlankLines(SetLine(lines, from, <<>>), from + 1, to)

\* WriteBlock that collapses the block into its marker line instead of
\* blanking the block's later lines.
WriteBlockCollapsing(lines, block) ==
  SubSeq(lines, 1, block.line - 1)
    \o <<Indent(LineAt(lines, block.line)) \o hiddenLine>>
    \o SubSeq(lines, block.end + 1, Len(lines))

\* The marker on the block's anchor line, the block's later lines blank.
WriteBlock(lines, block) ==
  LET base == LineAt(lines, block.line)
      indent == Indent(base)
  IN  BlankLines(SetLine(lines, block.line, indent \o hiddenLine), block.line + 1, block.end)

\* Whether applyEdits writes a block it has accepted.
BlockInRange(lines, block) ==
  ~(block.start > block.end) /\ ~(block.start < 1 \/ block.end > Len(lines))

\* ApplyBlocks that validates a block's range before recording it as accepted.
RECURSIVE ApplyBlocksValidFirst(_, _, _)
ApplyBlocksValidFirst(bs, lines, applied) ==
  IF bs = <<>> THEN [lines |-> lines, appliedBlocks |-> applied]
  ELSE LET block == Head(bs)
       IN  IF \E i \in 1..Len(applied) : rangesOverlap(applied[i], block)
           THEN ApplyBlocksValidFirst(Tail(bs), lines, applied)
           ELSE IF BlockInRange(lines, block)
           THEN ApplyBlocksValidFirst(Tail(bs), WriteBlock(lines, block), Append(applied, block))
           ELSE ApplyBlocksValidFirst(Tail(bs), lines, applied)

\* for (const block of filteredBlocks) { ... }
RECURSIVE ApplyBlocks(_, _, _)
ApplyBlocks(bs, lines, applied) ==
  IF bs = <<>> THEN [lines |-> lines, appliedBlocks |-> applied]
  ELSE LET block == Head(bs)
       IN  IF \E i \in 1..Len(applied) : rangesOverlap(applied[i], block)
           THEN ApplyBlocks(Tail(bs), lines, applied)
           ELSE IF BlockInRange(lines, block)
           THEN ApplyBlocks(Tail(bs), WriteBlock(lines, block), Append(applied, block))
           ELSE ApplyBlocks(Tail(bs), lines, Append(applied, block))

\* for (const item of replace) { ... }
RECURSIVE ApplyReplace(_, _, _)
ApplyReplace(items, lines, windowed) ==
  IF items = <<>> THEN lines
  ELSE LET item == Head(items)
       IN  IF item.line < 1 \/ item.line > Len(lines)
              \/ item.line < windowed.start \/ item.line > windowed.end
           THEN ApplyReplace(Tail(items), lines, windowed)
           ELSE ApplyReplace(Tail(items), SetLine(lines, item.line, item.text), windowed)

\* [...items].sort((a, b) => b.start - a.start), stable.
RECURSIVE InsertInline(_, _)
InsertInline(sorted, e) ==
  IF sorted = <<>> THEN <<e>>
  ELSE IF Head(sorted).start - e.start < 0 THEN <<e>> \o sorted
  ELSE <<Head(sorted)>> \o InsertInline(Tail(sorted), e)

RECURSIVE SortInline(_)
SortInline(es) ==
  IF es = <<>> THEN <<>>
  ELSE InsertInline(SortInline(SubSeq(es, 1, Len(es) - 1)), es[Len(es)])

\* for (const edit of sorted) { text = ... }
RECURSIVE ApplyInlineLine(_, _)
ApplyInlineLine(sorted, t) ==
  IF sorted = <<>> THEN t
  ELSE LET edit == Head(sorted)
           start == Max(edit.start - 1, 0)
           end == Max(edit.end - 1, start)
       IN  ApplyInlineLine(Tail(sorted), Slice(t, 0, start) \o edit.text \o SliceFrom(t, end))

\* The inline edits grouped by line, the lines in the order the Map first saw them.
RECURSIVE GroupedLines(_, _)
GroupedLines(items, seen) ==
  IF items = <<>> THEN seen
  ELSE IF \E i \in 1..Len(seen) : seen[i] = Head(items).line
       THEN GroupedLines(Tail(items), seen)
       ELSE GroupedLines(Tail(items), Append(seen, Head(items).line))

\* for (const [line, items] of grouped.entries()) { ... }
RECURSIVE ApplyInlineGroups(_, _, _)
ApplyInlineGroups(groupLines, items, lines) ==
  IF groupLines = <<>> THEN lines
  ELSE LET line == Head(groupLines)
           group == SelectSeq(items, LAMBDA e : e.line = line)
       IN  IF line < 1 \/ line > Len(lines)
           THEN ApplyInlineGroups(Tail(groupLines), items, lines)
           ELSE ApplyInlineGroups(Tail(groupLines), items,
                  SetLine(lines, line, ApplyInlineLine(SortInline(group), LineAt(lines, line))))

ApplyInline(items, lines, windowed) ==
  LET inWindow == SelectSeq(items, LAMBDA e :
                    ~(e.line < windowed.start \/ e.line > windowed.end))
  IN  ApplyInlineGroups(GroupedLines(inWindow, <<>>), inWindow, lines)

\* applyEdits(lines, inline, replace, blocks, window): the line array after the
\* edits, and the blocks it accepted.
applyEdits(lines, plan, w) ==
  LET windowed == Windowed(lines, w)
      afterBlocks == ApplyBlocks(FilterBlocks(plan.blocks, windowed), lines, <<>>)
      afterReplace == ApplyReplace(plan.replace, afterBlocks.lines, windowed)
  IN  [lines |-> ApplyInline(plan.inline, afterReplace, windowed),
       appliedBlocks |-> afterBlocks.appliedBlocks]

\* redactFile(filePath, text, window), from the cache c.
redactFile(c, path, t, w) ==
  LET sf == sourceFile(c, path, t)
      lines == Split(t)
      plan == PlanEdits(sf.file, lines)
      done == applyEdits(lines, plan, w)
  IN  [cache |-> sf.cache, file |-> sf.file, parsed |-> sf.parsed, plan |-> plan,
       appliedBlocks |-> done.appliedBlocks, redacted |-> Join(done.lines)]

----------------------------------------------------------------------------
(* src/redact.ts: redactOutput, the windowed reconciliation.               *)

fileTag == <<"<file>", NL>>
closeTag == <<NL, "</file>">>

Absent == [defined |-> FALSE, text |-> <<>>]
Returned(t) == [defined |-> TRUE, text |-> t]

\* The number of digits a line starts with.
RECURSIVE LeadingDigits(_)
LeadingDigits(line) ==
  IF line # <<>> /\ Head(line) \in Digits THEN 1 + LeadingDigits(Tail(line)) ELSE 0

\* line.match(/^(\d*\| )([\s\S]*)$/): whether it matches, and its first group.
MatchesPrefix(line) ==
  LET d == LeadingDigits(line)
  IN  Len(line) >= d + 2 /\ line[d + 1] = "|" /\ line[d + 2] = SP
PrefixOf(line) == SubSeq(line, 1, LeadingDigits(line) + 2)

\* The loop that fills data: the prefixes of the lines up to the first line
\* that has none.
RECURSIVE ParseData(_)
ParseData(lines) ==
  IF lines = <<>> \/ ~MatchesPrefix(Head(lines)) THEN <<>>
  ELSE <<PrefixOf(Head(lines))>> \o ParseData(Tail(lines))

DigitSeq == <<"0", "1", "2", "3", "4", "5", "6", "7", "8", "9">>
DigitValue(ch) == CHOOSE d \in 0..9 : DigitSeq[d + 1] = ch

\* Number.parseInt(digits, 10).
RECURSIVE ParseIntAcc(_, _)
ParseIntAcc(ds, acc) ==
  IF ds = <<>> THEN acc ELSE ParseIntAcc(Tail(ds), acc * 10 + DigitValue(Head(ds)))

NoNumber == -1

\* parseLinePrefix(prefix): the number of /^(\d+)\|\s/, or undefined.
parseLinePrefix(prefix) ==
  LET d == LeadingDigits(prefix)
  IN  IF d >= 1 /\ Len(prefix) >= d + 2 /\ prefix[d + 1] = "|" /\ prefix[d + 2] = SP
      THEN ParseIntAcc(SubSeq(prefix, 1, d), 0)
      ELSE NoNumber

lineWindow(startPrefix, endPrefix) ==
  LET start == parseLinePrefix(startPrefix)
      end == parseLinePrefix(endPrefix)
  IN  IF start = NoNumber \/ end = NoNumber THEN NoWindow
      ELSE [start |-> start, end |-> end]

\* redactOutput up to its disk read: ok is FALSE where it returns undefined.
ParseOutput(o) ==
  LET start == IndexOf(o, fileTag)
      tail == SliceFrom(o, start + Len(fileTag))
      end == IndexOf(tail, closeTag)
      lines == Split(Slice(tail, 0, end))
      data == ParseData(lines)
      w == lineWindow(data[1], data[Len(data)])
      none == [ok |-> FALSE, start |-> start, end |-> end, lines |-> <<>>,
               data |-> <<>>, window |-> NoWindow]
  IN  IF start = -1 THEN none
      ELSE IF end = -1 THEN none
      ELSE IF Len(data) = 0 THEN none
      ELSE IF w = NoWindow THEN none
      ELSE [ok |-> TRUE, start |-> start, end |-> end, lines |-> lines,
            data |-> data, window |-> w]

\* RebuildOutput without the comparison of the slice with the prefixed lines.
RebuildOutputUnchecked(o, redactedText) ==
  LET parsed == ParseOutput(o)
      w == parsed.window
      data == parsed.data
      redactedLines == Split(redactedText)
      updated == Slice(redactedLines, w.start - 1, w.end)
      rebuilt == [i \in 1..Len(data) |-> data[i] \o LineAt(updated, i)]
      content == Join(rebuilt \o SliceFrom(parsed.lines, Len(data)))
      fileEnd == parsed.start + Len(fileTag) + parsed.end
  IN  IF Len(redactedLines) < w.end THEN Absent
      ELSE Returned(Slice(o, 0, parsed.start + Len(fileTag)) \o content
                      \o SliceFrom(o, fileEnd))

\* RebuildOutput that joins the rebuilt lines only, without the section's
\* lines after the prefixed ones.
RebuildOutputNoTrailing(o, redactedText) ==
  LET parsed == ParseOutput(o)
      w == parsed.window
      data == parsed.data
      redactedLines == Split(redactedText)
      updated == Slice(redactedLines, w.start - 1, w.end)
      rebuilt == [i \in 1..Len(data) |-> data[i] \o LineAt(updated, i)]
      content == Join(rebuilt)
      fileEnd == parsed.start + Len(fileTag) + parsed.end
  IN  IF Len(redactedLines) < w.end THEN Absent
      ELSE IF Len(updated) # Len(data) THEN Absent
      ELSE Returned(Slice(o, 0, parsed.start + Len(fileTag)) \o content
                      \o SliceFrom(o, fileEnd))

\* redactOutput from the text the disk read gave: the integrity check and the
\* rebuilt output.
RebuildParsed(o, parsed, redactedLines) ==
  LET w == parsed.window
      data == parsed.data
      updated == Slice(redactedLines, w.start - 1, w.end)
      rebuilt == [i \in 1..Len(data) |-> data[i] \o LineAt(updated, i)]
      content == Join(rebuilt \o SliceFrom(parsed.lines, Len(data)))
      fileEnd == parsed.start + Len(fileTag) + parsed.end
  IN  IF Len(redactedLines) < w.end THEN Absent
      ELSE IF Len(updated) # Len(data) THEN Absent
      ELSE Returned(Slice(o, 0, parsed.start + Len(fileTag)) \o content
                      \o SliceFrom(o, fileEnd))

RebuildOutput(o, redactedText) ==
  CHOOSE r \in {RebuildParsed(o, parsed, redactedLines) :
                  parsed \in {ParseOutput(o)}, redactedLines \in {Split(redactedText)}} :
    TRUE

----------------------------------------------------------------------------
(* src/blackbox-utils.ts: the agent's options, the allowlist, the paths.   *)
(* A path and a glob pattern are texts whose characters are names, "/",    *)
(* ".", "*", "**" and a brace group.                                       *)

\* String.prototype.split(sep) for a one-character separator.
RECURSIVE SplitOnAcc(_, _, _)
SplitOnAcc(s, sep, cur) ==
  IF s = <<>> THEN <<cur>>
  ELSE IF Head(s) = sep THEN <<cur>> \o SplitOnAcc(Tail(s), sep, <<>>)
  ELSE SplitOnAcc(Tail(s), sep, Append(cur, Head(s)))
SplitOn(s, sep) == SplitOnAcc(s, sep, <<>>)

\* Array.prototype.join(sep).
RECURSIVE JoinWith(_, _)
JoinWith(ls, sep) ==
  IF ls = <<>> THEN <<>>
  ELSE IF Len(ls) = 1 THEN ls[1]
  ELSE ls[1] \o <<sep>> \o JoinWith(Tail(ls), sep)

\* String.prototype.trim().
Trim(s) == TrimEnd(TrimStart(s))

\* Array.prototype.filter.
RECURSIVE NonEmpty(_)
NonEmpty(ls) ==
  IF ls = <<>> THEN <<>>
  ELSE IF Head(ls) = <<>> THEN NonEmpty(Tail(ls))
  ELSE <<Head(ls)>> \o NonEmpty(Tail(ls))

\* The values of an option: a JavaScript value with its type.
Undefined == [type |-> "undefined", value |-> <<>>, items |-> <<>>]
True == [type |-> "boolean", value |-> <<"true">>, items |-> <<>>]
False == [type |-> "boolean", value |-> <<"false">>, items |-> <<>>]
Str(v) == [type |-> "string", value |-> v, items |-> <<>>]
Num(v) == [type |-> "number", value |-> v, items |-> <<>>]
Arr(vs) == [type |-> "array", value |-> <<>>, items |-> vs]

\* !raw: undefined, false, the empty string and 0 are falsy.
Falsy(v) ==
  \/ v.type = "undefined"
  \/ v.type = "boolean" /\ v.value = <<"false">>
  \/ v.type = "string" /\ v.value = <<>>
  \/ v.type = "number" /\ v.value = <<"0">>

\* The agents the host lists (agentsPromise): name -> options.  An agent that
\* is not listed is undefined.
NoOptions == [blackbox |-> Undefined, blackboxAllow |-> Undefined]
AgentList ==
  [bbArr  |-> [blackbox |-> True,
               blackboxAllow |-> Arr(<< <<SP, "lib", "/", "**", SP>>, <<SP>>, <<>> >>)],
   bbStr  |-> [blackbox |-> True,
               blackboxAllow |-> Str(<<"lib", "/", "**", SP, ",", ",", SP,
                                       "gen", "/", "*", ".", "ts">>)],
   bbNum  |-> [blackbox |-> True, blackboxAllow |-> Num(<<"5">>)],
   quoted |-> [blackbox |-> Str(<<"true">>), blackboxAllow |-> Undefined],
   off    |-> [blackbox |-> False, blackboxAllow |-> Str(<<"src", "/", "**">>)],
   plain  |-> NoOptions]
AgentNames == DOMAIN AgentList
Listed(name) == name \in AgentNames

\* agent.options?.['blackbox'] truthy: shouldBlackbox without the strict
\* comparison.
shouldBlackboxTruthy(name) ==
  IF ~Listed(name) THEN FALSE
  ELSE ~Falsy(AgentList[name].blackbox)

\* shouldBlackbox(agent), agent the entry of the list for the name.
shouldBlackbox(name) ==
  IF ~Listed(name) THEN FALSE
  ELSE LET v == AgentList[name].blackbox
       IN  v.type = "boolean" /\ v.value = <<"true">>

\* parseAgentAllowlist(agent).
parseAgentAllowlist(name) ==
  IF ~Listed(name) THEN <<>>
  ELSE LET raw == AgentList[name].blackboxAllow
       IN  IF Falsy(raw) THEN <<>>
           ELSE IF raw.type = "array"
             THEN NonEmpty([i \in 1..Len(raw.items) |-> Trim(raw.items[i])])
           ELSE IF raw.type = "string"
             THEN LET parts == SplitOn(raw.value, ",")
                  IN  NonEmpty([i \in 1..Len(parts) |-> Trim(parts[i])])
           ELSE <<>>

\* new Glob(pattern): the pattern's path segments.
Glob(pattern) == SplitOn(pattern, "/")

defaults == << <<"**", "/", "*", ".", "test", ".", "{ts,tsx}">>,
               <<"**", "/", "tests", "/", "**">> >>

\* parseAllowed without the defaults.
parseAllowedAgentOnly(name) ==
  LET fromAgent == parseAgentAllowlist(name)
  IN  [i \in 1..Len(fromAgent) |-> Glob(fromAgent[i])]

\* parseAllowed(agent).
parseAllowed(name) ==
  LET fromAgent == parseAgentAllowlist(name)
      merged == fromAgent \o defaults
  IN  [i \in 1..Len(merged) |-> Glob(merged[i])]

\* The names a character of a pattern's segment stands for: a brace group
\* stands for its alternatives.
Alternatives(ch) == IF ch = "{ts,tsx}" THEN {"ts", "tsx"} ELSE {ch}

\* One segment of a pattern against one segment of a path: "*" is any run of
\* characters of the segment.
RECURSIVE SegmentMatch(_, _)
SegmentMatch(p, seg) ==
  IF p = <<>> THEN seg = <<>>
  ELSE IF Head(p) = "*"
    THEN \E k \in 0..Len(seg) : SegmentMatch(Tail(p), SubSeq(seg, k + 1, Len(seg)))
  ELSE /\ seg # <<>>
       /\ Head(seg) \in Alternatives(Head(p))
       /\ SegmentMatch(Tail(p), Tail(seg))

\* The segments of a pattern against the segments of a path: "**" is any run
\* of segments.
RECURSIVE SegmentsMatch(_, _)
SegmentsMatch(ps, segs) ==
  IF ps = <<>> THEN segs = <<>>
  ELSE IF Head(ps) = <<"**">>
    THEN \E k \in 0..Len(segs) : SegmentsMatch(Tail(ps), SubSeq(segs, k + 1, Len(segs)))
  ELSE /\ segs # <<>>
       /\ SegmentMatch(Head(ps), Head(segs))
       /\ SegmentsMatch(Tail(ps), Tail(segs))

\* glob.match(filePath).
GlobMatch(glob, path) == SegmentsMatch(glob, SplitOn(path, "/"))

\* matchesAny(filePath, globs).
matchesAny(path, globs) == \E i \in 1..Len(globs) : GlobMatch(globs[i], path)

\* path.isAbsolute(p).
isAbsolute(p) == p # <<>> /\ Head(p) = "/"

\* The segments of a path with "." and empty segments dropped and ".." taking
\* the segment before it.
RECURSIVE ResolveSegments(_, _, _)
ResolveSegments(segs, acc, abs) ==
  IF segs = <<>> THEN acc
  ELSE LET seg == Head(segs)
           rest == Tail(segs)
       IN  IF seg = <<>> \/ seg = <<".">> THEN ResolveSegments(rest, acc, abs)
           ELSE IF seg = <<".", ".">>
             THEN IF acc # <<>> /\ acc[Len(acc)] # <<".", ".">>
                    THEN ResolveSegments(rest, SubSeq(acc, 1, Len(acc) - 1), abs)
                  ELSE IF abs THEN ResolveSegments(rest, acc, abs)
                  ELSE ResolveSegments(rest, Append(acc, seg), abs)
           ELSE ResolveSegments(rest, Append(acc, seg), abs)

\* normalize(filePath): path.normalize.
normalize(p) ==
  LET abs == isAbsolute(p)
      segs == ResolveSegments(SplitOn(p, "/"), <<>>, abs)
      body == JoinWith(segs, "/")
  IN  IF abs THEN <<"/">> \o body
      ELSE IF body = <<>> THEN <<".">> ELSE body

----------------------------------------------------------------------------
(* src/index.ts: what the hooks compute.                                   *)

\* String.prototype.toLowerCase() on the names of the model.
LowerChar(ch) ==
  CASE ch = "TS" -> "ts"
    [] ch = "A" -> "a"
    [] OTHER -> ch
toLowerCase(s) == [i \in 1..Len(s) |-> LowerChar(s[i])]

allowedExtensions == {<<"ts">>, <<"tsx">>, <<"js">>, <<"jsx">>}

\* p.split('.').pop().toLowerCase().
Extension(p) ==
  LET parts == SplitOn(p, ".")
  IN  toLowerCase(parts[Len(parts)])

\* ctx.worktree ?? ctx.directory, the directory the process runs in.
basePath == <<"/", "work">>

\* path.resolve(basePath, p).
resolve(p) == IF isAbsolute(p) THEN normalize(p) ELSE normalize(basePath \o <<"/">> \o p)

\* path.relative(basePath, p) for a path below basePath.
relative(p) ==
  LET full == resolve(p)
  IN  SubSeq(full, Len(basePath) + 2, Len(full))

\* The files on the disk, by absolute path, with the text of each.
DiskFiles ==
  {<<"/", "work", "/", "src", "/", "a", ".", "ts">>,
   <<"/", "work", "/", "src", "/", "a", ".", "test", ".", "ts">>,
   <<"/", "work", "/", "src", "/", "A", ".", "TS">>,
   <<"/", "work", "/", "tests", "/", "b", ".", "ts">>,
   <<"/", "work", "/", "lib", "/", "c", ".", "ts">>,
   <<"/", "work", "/", "doc", ".", "md">>}
DiskText == SourceText(<<"fn3">>)

\* Bun.file(path).text(): whether the read succeeds.  The tree cache of
\* ast.ts keeps a tree only with the text it was parsed from, so what
\* redactFile returns does not depend on the cache, and the hooks'
\* specification starts each call from an empty one.
OnDisk(path) == resolve(path) \in DiskFiles
FreshCache(path) == [p \in {path} |-> NoEntry]

reminderRedacted ==
  <<NL, NL, "<system-reminder>", NL,
    "Implementation redacted by opencode-blackbox; signatures and structure are intact.",
    NL, "</system-reminder>">>

\* The sessions, and the values of the hooks' state.
Sessions == {"s1", "s2"}
NoAgent == "undefined"
Null == "null"
NoAllow == [present |-> FALSE, globs |-> <<>>]

\* The record of a hook's run, and what it did to the output it was given:
\* the new text, metadata.redacted, and the reminder added to the message.
Event(hook, session, tool, agent, path, kind) ==
  [hook |-> hook, session |-> session, tool |-> tool, agent |-> agent, path |-> path,
   kind |-> kind]
NoEvent == Event("none", "", "", "", <<>>, "")
Unmodified == [modified |-> FALSE, output |-> <<>>, redacted |-> FALSE, reminder |-> FALSE]
Modified(o, flag) == [modified |-> TRUE, output |-> o, redacted |-> flag, reminder |-> TRUE]

----------------------------------------------------------------------------
(* The inputs.                                                             *)

\* The windows redactFile is called with on the text t.
Windows(t) ==
  LET n == Len(Split(t))
  IN  {NoWindow} \cup {w \in {[start |-> a, end |-> b] : a \in 1..n, b \in 1..n} :
                       w.start <= w.end}

\* A tool output: text, the start tag, the section's lines, the closing tag,
\* text.  A section line is "NN| old" (kind NN >= 0), "| old" (BarePrefix) or a
\* line with no prefix (PlainLine), as the read tool's "(End of file ...)".
MaxNum == 3
MaxSection == 3
BarePrefix == -1
PlainLine == -2

Pad(n) == <<DigitSeq[(n \div 10) + 1], DigitSeq[(n % 10) + 1]>>
SectionLine(k) ==
  IF k = PlainLine THEN <<"(End", SP, "of", SP, "file)">>
  ELSE IF k = BarePrefix THEN <<"|", SP, "old">>
  ELSE Pad(k) \o <<"|", SP, "old">>

LineKinds == PlainLine..MaxNum
Sections == UNION {[1..n -> LineKinds] : n \in 0..MaxSection}

Wrap(pre, hasStart, sec, hasClose, post) ==
  pre \o (IF hasStart THEN fileTag ELSE <<>>)
      \o Join([i \in 1..Len(sec) |-> SectionLine(sec[i])])
      \o (IF hasClose THEN closeTag ELSE <<>>) \o post

Before == <<"note", NL>>
After == <<NL, "note">>

Outputs ==
  {Wrap(Before, TRUE, sec, TRUE, After) : sec \in Sections}
    \cup {Wrap(<<>>, TRUE, sec, TRUE, <<>>) : sec \in [1..1 -> LineKinds]}
    \cup {Wrap(Before, FALSE, sec, TRUE, After) : sec \in [1..1 -> LineKinds]}
    \cup {Wrap(Before, TRUE, sec, FALSE, After) : sec \in [1..1 -> LineKinds]}
    \cup {<<"<file>", NL, "</file>">>, <<"some", SP, "text">>}

\* The calls that can be in flight together, and a call not yet made.
FlowNames == {"f1", "f2"}
IdleFlow ==
  [pc |-> "idle", op |-> "none", path |-> "", output |-> <<>>, window |-> NoWindow,
   text |-> <<>>, found |-> NoEntry, parsed |-> FALSE, result |-> Absent,
   began |-> 0, ranAt |-> 0]

\* What the disk read of redactOutput can give: the files of one declaration.
DiskTexts == {SourceText(<<s>>) : s \in ShapeNames}

----------------------------------------------------------------------------
(* The state machine: one call of an entry point from a fresh process.     *)

Init ==
  /\ pc = "idle"
  /\ op = "none"
  /\ cache = [p \in Paths |-> NoEntry]
  /\ filePath = ""
  /\ text = <<>>
  /\ window = NoWindow
  /\ inline = <<>>
  /\ replace = <<>>
  /\ blocks = <<>>
  /\ appliedBlocks = <<>>
  /\ redacted = <<>>
  /\ output = <<>>
  /\ readError = FALSE
  /\ returned = Absent
  /\ parses = 0
  /\ tree = <<>>
  /\ history = <<>>
  /\ flows = [f \in FlowNames |-> IdleFlow]
  /\ sessionToAgent = [s \in Sessions |-> NoAgent]
  /\ written = [s \in Sessions |-> {}]
  /\ allowCache = [a \in AgentNames |-> NoAllow]
  /\ event = NoEvent
  /\ result = Unmodified
  /\ lastChat = [s \in Sessions |-> [agent |-> NoAgent, named |-> NoAgent]]
  /\ wroteFiles = {}

\* The part of a state redactFile(path, t, w) sets.
RunRedactFile(path, t, w) ==
  \E r \in {redactFile(cache, path, t, w)} :
      /\ cache' = r.cache
      /\ filePath' = path
      /\ text' = t
      /\ window' = w
      /\ inline' = r.plan.inline
      /\ replace' = r.plan.replace
      /\ blocks' = r.plan.blocks
      /\ appliedBlocks' = r.appliedBlocks
      /\ redacted' = r.redacted
      /\ parses' = IF r.parsed THEN parses + 1 ELSE parses
      /\ tree' = r.file
      /\ history' = Append(history, [path |-> path, text |-> t])

\* redactFile(path, t, w), called directly.
RedactFile ==
  /\ pc = "idle"
  /\ \E path \in Paths, t \in Texts :
       \E w \in Windows(t) : RunRedactFile(path, t, w)
  /\ pc' = "done"
  /\ op' = "redactFile"
  /\ UNCHANGED <<output, readError, returned>>
  /\ UNCHANGED flows
  /\ UNCHANGED pluginVars

\* redactOutput(title, o) up to the disk read, or to its early return.
RedactOutputBegin ==
  /\ pc = "idle"
  /\ \E title \in Paths, o \in Outputs :
       LET parsed == ParseOutput(o)
       IN  /\ filePath' = title
           /\ output' = o
           /\ window' = parsed.window
           /\ pc' = IF parsed.ok THEN "reading" ELSE "done"
  /\ op' = "redactOutput"
  /\ returned' = Absent
  /\ UNCHANGED <<cache, text, inline, replace, blocks, appliedBlocks, redacted, readError,
                 parses, tree, history>>
  /\ UNCHANGED flows
  /\ UNCHANGED pluginVars

\* The disk read gives the file's text: redactFile, the integrity check, the result.
RedactOutputRead ==
  /\ pc = "reading"
  /\ \E t \in DiskTexts :
       /\ RunRedactFile(filePath, t, window)
       /\ returned' = RebuildOutput(output, redacted')
  /\ pc' = "done"
  /\ UNCHANGED <<op, output, readError>>
  /\ UNCHANGED flows
  /\ UNCHANGED pluginVars

\* The disk read throws.
RedactOutputReadFails ==
  /\ pc = "reading"
  /\ readError' = TRUE
  /\ returned' = Absent
  /\ pc' = "done"
  /\ UNCHANGED <<op, cache, filePath, text, window, inline, replace, blocks,
                 appliedBlocks, redacted, output, parses, tree, history>>
  /\ UNCHANGED flows
  /\ UNCHANGED pluginVars

Next == RedactFile \/ RedactOutputBegin \/ RedactOutputRead \/ RedactOutputReadFails

Spec == Init /\ [][Next]_vars

----------------------------------------------------------------------------
(* The tree cache over a sequence of sourceFile calls in one process.      *)

MaxCalls == 3

\* The texts the calls give: three different files.
CacheTexts == {SourceText(<<s>>) : s \in {"var1", "fn1", "doc"}}

\* sourceFile(path, t), called directly.
SourceFileCall ==
  /\ pc = "idle"
  /\ Len(history) < MaxCalls
  /\ \E path \in Paths, t \in CacheTexts :
       \E r \in {sourceFile(cache, path, t)} :
          /\ cache' = r.cache
          /\ tree' = r.file
          /\ parses' = IF r.parsed THEN parses + 1 ELSE parses
          /\ history' = Append(history, [path |-> path, text |-> t])
          /\ filePath' = path
          /\ text' = t
  /\ op' = "sourceFile"
  /\ UNCHANGED <<pc, window, inline, replace, blocks, appliedBlocks, redacted, output,
                 readError, returned>>
  /\ UNCHANGED flows
  /\ UNCHANGED pluginVars

CacheNext == SourceFileCall

CacheSpec == Init /\ [][CacheNext]_vars

----------------------------------------------------------------------------
(* The plugin's hooks over the events of two sessions in one process.      *)

\* The agents the chat messages and the messages to transform name: some of
\* the listed ones and one that is not listed.
ChatAgents == {"bbArr", "bbStr", "quoted", "plain", "ghost"}
TransformAgents == {"bbArr", "bbStr", "plain"}

\* The read tool's titles: a file, the same file spelled with "." segments,
\* files of the default allowlist and of the agents' allowlists, a file with
\* an upper-case extension, a file that is not a script.
ReadTitles ==
  {<<"src", "/", "a", ".", "ts">>,
   <<".", "/", "src", "/", ".", "/", "a", ".", "ts">>,
   <<"src", "/", "a", ".", "test", ".", "ts">>,
   <<"tests", "/", "b", ".", "ts">>,
   <<"lib", "/", "c", ".", "ts">>,
   <<"src", "/", "A", ".", "TS">>,
   <<"doc", ".", "md">>}

\* The read tool's output: the listing of the file's three lines.
Listing == Wrap(Before, TRUE, <<1, 2, 3>>, TRUE, After)
ReadOutputs == {Listing}

\* The write tool's metadata.filepath: a path, or no string.
WritePaths == {Str(<<".", "/", "src", "/", "a", ".", "ts">>), Undefined}

\* The paths of the attachments and of the inline reads.
TransformPaths ==
  {<<"src", "/", "a", ".", "ts">>,
   <<"/", "work", "/", "src", "/", "a", ".", "ts">>,
   <<"/", "work", "/", "lib", "/", "c", ".", "ts">>,
   <<"doc", ".", "md">>}

\* 'chat.message'.
ChatMessage ==
  \E s \in Sessions, agent \in ChatAgents \cup {Null} :
    /\ sessionToAgent' = IF agent = Null THEN sessionToAgent
                         ELSE [sessionToAgent EXCEPT ![s] = agent]
    /\ lastChat' = [lastChat EXCEPT ![s] =
                       [agent |-> agent,
                        named |-> IF agent = Null THEN @.named ELSE agent]]
    /\ event' = Event("chat.message", s, "", agent, <<>>, "")
    /\ result' = Unmodified
    /\ UNCHANGED <<written, allowCache, wroteFiles>>
    /\ UNCHANGED redactVars

\* allowCache.get(agentName) ?? parseAllowed(agent).
CachedAllow(c, agentName) ==
  IF c[agentName].present THEN c[agentName].globs ELSE parseAllowed(agentName)

\* 'tool.execute.after' for the write tool.
ToolWrite ==
  \E s \in Sessions, filepath \in WritePaths :
    /\ written' = IF filepath.type # "string" THEN written
                  ELSE [written EXCEPT ![s] = @ \cup {normalize(filepath.value)}]
    /\ wroteFiles' = IF filepath.type # "string" THEN wroteFiles
                     ELSE wroteFiles \cup {<<s, resolve(filepath.value)>>}
    /\ event' = Event("tool.execute.after", s, "write", sessionToAgent[s],
                      filepath.value, "")
    /\ result' = Unmodified
    /\ UNCHANGED <<sessionToAgent, allowCache, lastChat>>
    /\ UNCHANGED redactVars

\* 'tool.execute.after' for the read tool: the early returns, then
\* redactOutput(output.title, output.output) and the new output.
ToolRead ==
  \E s \in Sessions, title \in ReadTitles, o \in ReadOutputs :
    LET agentName == sessionToAgent[s]
        normalized == normalize(title)
        toAllow == /\ Extension(title) \in allowedExtensions
                   /\ agentName # NoAgent
                   /\ shouldBlackbox(agentName)
                   /\ normalized \notin written[s]
        allow == CachedAllow(allowCache, agentName)
        parsed == ParseOutput(o)
        toRedact == toAllow /\ ~matchesAny(normalized, allow) /\ parsed.ok /\ OnDisk(title)
    IN  \E file \in {IF toRedact
                       THEN redactFile(FreshCache(title), title, DiskText,
                                       parsed.window).redacted
                     ELSE <<>>} :
        \E updated \in {IF toRedact THEN RebuildOutput(o, file) ELSE Absent} :
          /\ allowCache' = IF toAllow
                             THEN [allowCache EXCEPT ![agentName] =
                                     [present |-> TRUE, globs |-> allow]]
                           ELSE allowCache
          /\ result' = IF updated.defined
                         THEN Modified(updated.text \o reminderRedacted, TRUE)
                       ELSE Unmodified
          /\ event' = Event("tool.execute.after", s, "read", agentName, title, "")
          /\ UNCHANGED <<sessionToAgent, written, lastChat, wroteFiles>>
          /\ UNCHANGED redactVars

\* 'tool.execute.after' for another tool.
ToolOther ==
  \E s \in Sessions :
    /\ event' = Event("tool.execute.after", s, "bash", sessionToAgent[s], <<>>, "")
    /\ result' = Unmodified
    /\ UNCHANGED <<sessionToAgent, written, allowCache, lastChat, wroteFiles>>
    /\ UNCHANGED redactVars

\* 'experimental.chat.messages.transform' on the messages of session s: a
\* user message of the agent with a text part and a file part (filename and
\* source path p), or with the two text parts of an inline read of p (the
\* read tool's call, then its output).  A file part gets the redacted file,
\* the output of an inline read gets redactOutput's result and the reminder.
Transform ==
  \E s \in Sessions, agentName \in TransformAgents, p \in TransformPaths,
     kind \in {"file", "inline"} :
    LET allow == CachedAllow(allowCache, agentName)
        normalizedPath == normalize(IF isAbsolute(p) THEN relative(p) ELSE p)
        absolutePath == resolve(p)
        parsed == ParseOutput(Listing)
        reached == /\ shouldBlackbox(agentName)
                   /\ Extension(p) \in allowedExtensions
                   /\ ~matchesAny(normalizedPath, allow)
                   /\ kind = "inline" => IndexOf(Listing, <<"<file>">>) # -1 /\ parsed.ok
                   /\ OnDisk(absolutePath)
        w == IF kind = "file" THEN NoWindow ELSE parsed.window
    IN  \E file \in {IF reached
                       THEN redactFile(FreshCache(absolutePath), absolutePath, DiskText,
                                       w).redacted
                     ELSE <<>>} :
        \E updated \in {IF reached /\ kind = "inline" THEN RebuildOutput(Listing, file)
                        ELSE Absent} :
          /\ allowCache' = IF shouldBlackbox(agentName)
                             THEN [allowCache EXCEPT ![agentName] =
                                     [present |-> TRUE, globs |-> allow]]
                           ELSE allowCache
          /\ result' = IF ~reached THEN Unmodified
                       ELSE IF kind = "file" THEN Modified(file, FALSE)
                       ELSE IF updated.defined
                         THEN Modified(updated.text \o reminderRedacted, TRUE)
                       ELSE Unmodified
          /\ event' = Event("experimental.chat.messages.transform", s, "", agentName, p,
                            kind)
          /\ UNCHANGED <<sessionToAgent, written, lastChat, wroteFiles>>
          /\ UNCHANGED redactVars

\* The chat and tool hooks over the events of the two sessions.
PluginNext == ChatMessage \/ ToolWrite \/ ToolRead \/ ToolOther

PluginSpec == Init /\ [][PluginNext]_vars

\* The writes of the two sessions and the transform of their messages.
TransformNext == ToolWrite \/ Transform

TransformSpec == Init /\ [][TransformNext]_vars

----------------------------------------------------------------------------
(* 'experimental.chat.messages.transform' over a list of messages, each    *)
(* with its parts.                                                         *)

MaxMessages == 2

OriginalUrl == <<"data:", "original">>
TextPart(t, redaction) ==
  [type |-> "text", text |-> t, filename |-> <<>>, url |-> <<>>,
   redaction |-> redaction, redacted |-> FALSE]
FilePart(filename) ==
  [type |-> "file", text |-> <<>>, filename |-> filename, url |-> OriginalUrl,
   redaction |-> FALSE, redacted |-> FALSE]
isTextPart(part) == part.type = "text"
isFilePart(part) == part.type = "file"

\* The text of the read tool's call, as the messages carry it.
readPrefix == "Called the Read tool with the following input: "
ReadCall(path) == <<readPrefix, "{", "\"filePath\":", "\"">> \o path \o <<"\"", "}">>

\* JSON.parse(payload).filePath, or the empty string when the payload has none.
ReadInputPath(payload) ==
  IF /\ Len(payload) >= 5
     /\ SubSeq(payload, 1, 3) = <<"{", "\"filePath\":", "\"">>
     /\ SubSeq(payload, Len(payload) - 1, Len(payload)) = <<"\"", "}">>
  THEN SubSeq(payload, 4, Len(payload) - 2)
  ELSE <<>>

reminderAttached ==
  <<NL, NL, "<system-reminder>", NL,
    "Some attached files were redacted by opencode-blackbox.",
    NL, "</system-reminder>">>

\* The script the messages attach and read.
Script == <<"src", "/", "a", ".", "ts">>

\* redactOutput(absolutePath, o) for a listing o of the read tool; disk is
\* what the disk gives the hook: file, redactFile of the file's text, and
\* listing, redactOutput of each listing.
RedactOutputOf(absolutePath, o, disk) ==
  IF ~OnDisk(absolutePath) THEN Absent ELSE disk.listing[o]

\* normalize(path.isAbsolute(p) ? path.relative(basePath, p) : p).
NormalizedPath(p) == normalize(IF isAbsolute(p) THEN relative(p) ELSE p)

\* Whether the hook redacts the file part.
FilePartRedacted(part, allow) ==
  /\ part.filename # <<>>
  /\ Extension(part.filename) \in allowedExtensions
  /\ ~matchesAny(NormalizedPath(part.filename), allow)
  /\ OnDisk(resolve(part.filename))

\* What the hook makes of the text part after a read call, or Absent.
InlineReadUpdated(parts, index, allow, disk) ==
  LET part == parts[index]
      rawPath == ReadInputPath(Tail(part.text))
  IN  IF part.text = <<>> \/ Head(part.text) # readPrefix THEN Absent
      ELSE IF rawPath = <<>> THEN Absent
      ELSE IF Extension(rawPath) \notin allowedExtensions THEN Absent
      ELSE IF matchesAny(NormalizedPath(rawPath), allow) THEN Absent
      ELSE IF index + 1 > Len(parts) \/ ~isTextPart(parts[index + 1]) THEN Absent
      ELSE IF IndexOf(parts[index + 1].text, <<"<file>">>) = -1 THEN Absent
      ELSE RedactOutputOf(resolve(rawPath), parts[index + 1].text, disk)

\* RedactParts that forgets, at each message, what the messages before it
\* had redacted.
RECURSIVE RedactPartsOwn(_, _, _, _, _)
RedactPartsOwn(parts, index, didRedact, allow, disk) ==
  IF index > Len(parts) THEN [parts |-> parts, didRedact |-> didRedact]
  ELSE LET part == parts[index]
           seen == IF index = 1 THEN FALSE ELSE didRedact
       IN  IF isFilePart(part)
           THEN IF FilePartRedacted(part, allow)
                THEN RedactPartsOwn([parts EXCEPT ![index].url = <<"data:">> \o disk.file],
                                    index + 1, TRUE, allow, disk)
                ELSE RedactPartsOwn(parts, index + 1, seen, allow, disk)
           ELSE LET updated == InlineReadUpdated(parts, index, allow, disk)
                IN  IF updated.defined
                    THEN RedactPartsOwn(
                           [parts EXCEPT ![index + 1].text = updated.text \o reminderRedacted,
                                         ![index + 1].redacted = TRUE],
                           index + 1, TRUE, allow, disk)
                    ELSE RedactPartsOwn(parts, index + 1, seen, allow, disk)

\* for (let index = 0; index < parts.length; index += 1) { ... }: the parts
\* after the loop, and didRedact.
RECURSIVE RedactParts(_, _, _, _, _)
RedactParts(parts, index, didRedact, allow, disk) ==
  IF index > Len(parts) THEN [parts |-> parts, didRedact |-> didRedact]
  ELSE LET part == parts[index]
       IN  IF isFilePart(part)
           THEN IF FilePartRedacted(part, allow)
                THEN RedactParts([parts EXCEPT ![index].url = <<"data:">> \o disk.file],
                                 index + 1, TRUE, allow, disk)
                ELSE RedactParts(parts, index + 1, didRedact, allow, disk)
           ELSE LET updated == InlineReadUpdated(parts, index, allow, disk)
                IN  IF updated.defined
                    THEN RedactParts(
                           [parts EXCEPT ![index + 1].text = updated.text \o reminderRedacted,
                                         ![index + 1].redacted = TRUE],
                           index + 1, TRUE, allow, disk)
                    ELSE RedactParts(parts, index + 1, didRedact, allow, disk)

\* The reminder on the message's first text part, when something was
\* redacted so far and no text part of the message carries the flag.
WithReminder(parts, didRedact) ==
  LET texts == {i \in 1..Len(parts) : isTextPart(parts[i])}
  IN  IF ~didRedact THEN parts
      ELSE IF \E i \in texts : parts[i].redaction THEN parts
      ELSE IF texts = {} THEN parts
      ELSE LET first == CHOOSE i \in texts : \A j \in texts : i <= j
           IN  [parts EXCEPT ![first].text = @ \o reminderAttached,
                             ![first].redaction = TRUE]

\* for (const message of output.messages) { ... }, didRedact declared before it.
RECURSIVE RedactMessages(_, _, _, _)
RedactMessages(messages, didRedact, allow, disk) ==
  IF messages = <<>> THEN <<>>
  ELSE LET message == Head(messages)
           done == RedactParts(message.parts, 1, didRedact, allow, disk)
       IN  <<[message EXCEPT !.parts = WithReminder(done.parts, done.didRedact)]>>
             \o RedactMessages(Tail(messages), done.didRedact, allow, disk)

\* output.messages.find((message) => message.info.role === 'user'): its index, or 0.
FirstUser(messages) ==
  LET users == {i \in 1..Len(messages) : messages[i].role = "user"}
  IN  IF users = {} THEN 0 ELSE CHOOSE i \in users : \A j \in users : i <= j

\* The hook that takes the agent of the last user message of the list.
transformMessagesLastUser(messages, c, disk) ==
  LET users == {i \in 1..Len(messages) : messages[i].role = "user"}
      last == IF users = {} THEN 0 ELSE CHOOSE i \in users : \A j \in users : i >= j
      agentName == IF last = 0 THEN NoAgent ELSE messages[last].agent
  IN  IF last = 0 \/ agentName = NoAgent \/ ~shouldBlackbox(agentName)
      THEN [messages |-> messages, allowCache |-> c, agent |-> agentName]
      ELSE LET allow == CachedAllow(c, agentName)
           IN  [messages |-> RedactMessages(messages, FALSE, allow, disk),
                allowCache |-> [c EXCEPT ![agentName] = [present |-> TRUE, globs |-> allow]],
                agent |-> agentName]

\* The hook on output.messages: the messages it leaves, and allowCache.
transformMessages(messages, c, disk) ==
  LET first == FirstUser(messages)
      agentName == IF first = 0 THEN NoAgent ELSE messages[first].agent
  IN  IF first = 0 \/ agentName = NoAgent \/ ~shouldBlackbox(agentName)
      THEN [messages |-> messages, allowCache |-> c, agent |-> agentName]
      ELSE LET allow == CachedAllow(c, agentName)
           IN  [messages |-> RedactMessages(messages, FALSE, allow, disk),
                allowCache |-> [c EXCEPT ![agentName] = [present |-> TRUE, globs |-> allow]],
                agent |-> agentName]

\* The messages: a user message names its agent, or none; the parts are a
\* text, a text and an attached script, an attached script alone, a text
\* that carries metadata.redaction, the two texts of an inline read, and
\* attachments the hook leaves alone: an allowlisted script and a document.
Hello == TextPart(<<"hello">>, FALSE)
UserMessage(agent, parts) == [role |-> "user", agent |-> agent, parts |-> parts]
AssistantMessage(parts) == [role |-> "assistant", agent |-> NoAgent, parts |-> parts]

MessageInputs ==
  {UserMessage("bbArr", <<Hello, FilePart(Script)>>),
   UserMessage("plain", <<Hello, FilePart(Script)>>),
   UserMessage(NoAgent, <<Hello, FilePart(Script)>>),
   UserMessage("bbArr", <<Hello>>),
   UserMessage("plain", <<Hello>>),
   AssistantMessage(<<Hello>>),
   AssistantMessage(<<TextPart(<<"hello">>, TRUE)>>),
   AssistantMessage(<<FilePart(Script)>>),
   AssistantMessage(<<TextPart(ReadCall(Script), FALSE), TextPart(Listing, FALSE)>>),
   AssistantMessage(<<FilePart(<<"lib", "/", "c", ".", "ts">>),
                      FilePart(<<"doc", ".", "md">>)>>)}

MessageLists == UNION {[1..n -> MessageInputs] : n \in 1..MaxMessages}

\* The hook, called once on a list of messages.
TransformMessages ==
  /\ pc = "idle"
  /\ \E file \in {redactFile(FreshCache(resolve(Script)), resolve(Script), DiskText,
                               NoWindow).redacted},
        inWindow \in {redactFile(FreshCache(resolve(Script)), resolve(Script), DiskText,
                                 ParseOutput(Listing).window).redacted} :
     \E disk \in {[file |-> file,
                    listing |-> [o \in ReadOutputs |-> RebuildOutput(o, inWindow)]]} :
       \E messages \in MessageLists :
         \E done \in {transformMessages(messages, allowCache, disk)} :
            /\ allowCache' = done.allowCache
            /\ event' = [hook |-> "experimental.chat.messages.transform", session |-> "",
                         tool |-> "", agent |-> done.agent, path |-> <<>>,
                         kind |-> "messages", messages |-> messages]
            /\ result' = [modified |-> done.messages # messages, output |-> <<>>,
                          redacted |-> FALSE, reminder |-> FALSE,
                          messages |-> done.messages]
  /\ pc' = "done"
  /\ UNCHANGED <<op, cache, filePath, text, window, inline, replace, blocks,
                 appliedBlocks, redacted, output, readError, returned, parses, tree,
                 history, flows>>
  /\ UNCHANGED <<sessionToAgent, written, lastChat, wroteFiles>>

\* The chat messages of the two sessions and one call of the hook.
MessagesNext == ChatMessage \/ TransformMessages

MessagesSpec == Init /\ [][MessagesNext]_vars

----------------------------------------------------------------------------
(* Interleaved calls: redactOutput suspends at its disk read, and other    *)
(* calls run meanwhile on the same tree cache.                             *)

FlowTexts == {SourceText(<<"fn3">>), SourceText(<<"arrow3">>)}
FlowWindows == {NoWindow, [start |-> 1, end |-> 2]}
FlowOutputs == {Listing, <<"some", SP, "text">>}

\* redactFile(path, t, w) of flow f, in one step.
FlowRedactFile ==
  \E f \in FlowNames :
    /\ flows[f].pc = "idle"
    /\ \E path \in Paths, t \in FlowTexts, w \in FlowWindows :
         /\ RunRedactFile(path, t, w)
         /\ flows' = [flows EXCEPT ![f] =
                        [pc |-> "done", op |-> "redactFile", path |-> path, output |-> <<>>,
                         window |-> w, text |-> t, found |-> cache[path],
                         parsed |-> (parses' # parses), result |-> Returned(redacted'),
                         began |-> Len(history), ranAt |-> Len(history')]]
    /\ UNCHANGED <<pc, op, output, readError, returned>>
    /\ UNCHANGED pluginVars

\* redactOutput(title, o) of flow f up to the disk read, or to its early return.
FlowOutputBegin ==
  \E f \in FlowNames :
    /\ flows[f].pc = "idle"
    /\ \E title \in Paths, o \in FlowOutputs :
         \E parsed \in {ParseOutput(o)} :
            flows' = [flows EXCEPT ![f] =
                        [IdleFlow EXCEPT !.pc = IF parsed.ok THEN "reading" ELSE "done",
                                         !.op = "redactOutput", !.path = title,
                                         !.output = o, !.window = parsed.window,
                                         !.began = Len(history)]]
    /\ UNCHANGED <<pc, op, cache, filePath, text, window, inline, replace, blocks,
                   appliedBlocks, redacted, output, readError, returned, parses, tree,
                   history>>
    /\ UNCHANGED pluginVars

\* The disk read of flow f gives the file's text: redactFile, the integrity
\* check and the result, in one step.
FlowOutputRead ==
  \E f \in FlowNames :
    /\ flows[f].pc = "reading"
    /\ \E t \in FlowTexts :
         /\ RunRedactFile(flows[f].path, t, flows[f].window)
         /\ flows' = [flows EXCEPT ![f] =
                        [@ EXCEPT !.pc = "done", !.text = t,
                                  !.found = cache[flows[f].path],
                                  !.parsed = (parses' # parses),
                                  !.result = RebuildOutput(flows[f].output, redacted'),
                                  !.ranAt = Len(history')]]
    /\ UNCHANGED <<pc, op, output, readError, returned>>
    /\ UNCHANGED pluginVars

\* The disk read of flow f throws.
FlowOutputReadFails ==
  \E f \in FlowNames :
    /\ flows[f].pc = "reading"
    /\ flows' = [flows EXCEPT ![f] = [@ EXCEPT !.pc = "done", !.result = Absent]]
    /\ UNCHANGED <<pc, op, cache, filePath, text, window, inline, replace, blocks,
                   appliedBlocks, redacted, output, readError, returned, parses, tree,
                   history>>
    /\ UNCHANGED pluginVars

FlowNext == FlowRedactFile \/ FlowOutputBegin \/ FlowOutputRead \/ FlowOutputReadFails

FlowSpec == Init /\ [][FlowNext]_vars

----------------------------------------------------------------------------
(* applyEdits on block lists of any kind.                                  *)

MaxBlocks == 2
MaxBlockLine == 4

\* The line array applyEdits gets: three lines, the second one indented.
ApplyText == <<"a", NL, SP, "b", NL, "c">>

\* The block edits: ranges inside the file, empty ranges, and ranges that
\* begin before line 1 or end after the last line.
BlockInputs ==
  {BlockEdit(start, end, start, priority) :
     start \in 0..MaxBlockLine, end \in 0..MaxBlockLine, priority \in 2..3}

BlockLists == UNION {[1..n -> BlockInputs] : n \in 1..MaxBlocks}

ApplyWindows == {NoWindow, [start |-> 2, end |-> 3]}

\* applyEdits(lines, [], [], blocks, window), called directly.
ApplyEditsCall ==
  /\ pc = "idle"
  /\ \E bs \in BlockLists, w \in ApplyWindows :
       \E done \in {applyEdits(Split(ApplyText), [inline |-> <<>>, replace |-> <<>>, blocks |-> bs], w)} :
          /\ text' = ApplyText
          /\ window' = w
          /\ blocks' = bs
          /\ appliedBlocks' = done.appliedBlocks
          /\ redacted' = Join(done.lines)
  /\ pc' = "done"
  /\ op' = "applyEdits"
  /\ UNCHANGED <<cache, filePath, inline, replace, output, readError, returned, parses,
                 tree, history>>
  /\ UNCHANGED flows
  /\ UNCHANGED pluginVars

ApplyNext == ApplyEditsCall

ApplySpec == Init /\ [][ApplyNext]_vars

----------------------------------------------------------------------------
(* Properties of redactFile.                                               *)

InputLines == Split(text)
OutputLines == Split(redacted)
Tree == Parse(text)

\* redactFile was called directly and has returned.
RanRedactFile == pc = "done" /\ op = "redactFile"
RanWholeFile == RanRedactFile /\ window = NoWindow

Occurs(t, ch) == \E i \in 1..Len(t) : t[i] = ch
IsMarkerLine(line) == TrimStart(line) = hiddenLine
HasMarker(line) == IndexOf(line, hiddenLine) # -1
LineSet(b) == {l \in b.start..b.end : TRUE}

\* C1: redactFile returns a text with exactly as many lines as the text it was
\* given, for every path, text and window (also when redactOutput calls it).
C1_LineCountPreserved ==
  (pc = "done" /\ text # <<>>) => Len(OutputLines) = Len(InputLines)

\* A windowed call that wrote blocks, replaced lines and edited inline.
C1_Witness ==
  /\ RanRedactFile
  /\ window # NoWindow
  /\ \E i \in 1..Len(appliedBlocks) : BlockInRange(InputLines, appliedBlocks[i])
  /\ replace # <<>>
  /\ inline # <<>>
  /\ redacted # text
  /\ Len(OutputLines) = Len(InputLines)

\* C2: with a window [start, end], every output line numbered below start or
\* above end is identical to the same line of the input.
C2_OutsideWindowUntouched ==
  (RanRedactFile /\ window # NoWindow) =>
    \A i \in 1..Len(InputLines) :
      (i < window.start \/ i > window.end) => LineAt(OutputLines, i) = InputLines[i]

\* C3: the output has no private or protected member of an exported class by
\* name, and the member's declaration line is the marker line.
HiddenMember(n) ==
  n.parent = "ClassDeclaration" /\ n.exported /\ n.modifier \in {"private", "protected"}

C3_PrivateMembersHidden ==
  RanWholeFile =>
    \A i \in 1..Len(Tree) :
      HiddenMember(Tree[i]) =>
        /\ ~Occurs(redacted, Tree[i].name)
        /\ IsMarkerLine(LineAt(OutputLines, Tree[i].start.line))

\* C4: the output has no non-exported top-level function or variable by name;
\* the declaration's span is one marker line followed by blank lines.
NonExportedTopLevel(n) ==
  /\ n.kind \in {"FunctionDeclaration", "VariableDeclaration"}
  /\ n.parent \in {"SourceFile", "VariableStatement"}
  /\ ~n.exported

C4_NonExportedHidden ==
  RanWholeFile =>
    \A i \in 1..Len(Tree) :
      NonExportedTopLevel(Tree[i]) =>
        /\ ~Occurs(redacted, Tree[i].name)
        /\ IsMarkerLine(LineAt(OutputLines, Tree[i].start.line))
        /\ \A l \in (Tree[i].start.line + 1)..Tree[i].end.line :
             LineAt(OutputLines, l) = <<>>

\* C5: for every node whose body or initializer is redacted, the text before
\* the body's opening brace (the brace included), or before the initializer's
\* assignment operator, is the same in input and output, at the same columns.
IsRedacted(n) == PlanNode(n, InputLines, EmptyPlan) # EmptyPlan

\* The lines from line l to line m, the last one cut after column c.
TextUpTo(lines, l, m, c) ==
  [k \in 1..(m - l + 1) |->
     IF k = m - l + 1 THEN SubSeq(LineAt(lines, m), 1, Min(c, Len(LineAt(lines, m))))
     ELSE LineAt(lines, l + k - 1)]

SignatureOf(lines, n) ==
  IF n.body.kind = "Block"
  THEN TextUpTo(lines, n.start.line, n.body.start.line, n.body.start.column)
  ELSE TextUpTo(lines, n.start.line, n.equals.line, n.equals.column - 1)

C5_SignatureUnchanged ==
  RanWholeFile =>
    \A i \in 1..Len(Tree) :
      (IsRedacted(Tree[i]) /\ (Tree[i].body.kind = "Block" \/ Tree[i].equals # NoPos)) =>
        SignatureOf(OutputLines, Tree[i]) = SignatureOf(InputLines, Tree[i])

\* C6: for every exported function with a body of three or more lines, the
\* signature line is kept, exactly one line of the body's range holds the
\* block marker, and no token of the body is left in the output.
LongExportedFunction(n) ==
  /\ n.kind = "FunctionDeclaration"
  /\ n.exported
  /\ n.body.kind = "Block"
  /\ n.body.end.line - n.body.start.line >= 2

\* The tokens strictly between the body's braces.
BodyTokens(lines, body) ==
  {lines[l][c] : <<l, c>> \in
     {p \in UNION {{<<l, c>> : c \in 1..Len(lines[l])} : l \in body.start.line..body.end.line} :
        /\ (p[1] = body.start.line => p[2] > body.start.column)
        /\ (p[1] = body.end.line => p[2] < body.end.column - 1)}}
    \ {SP}

C6_LongBodyHidden ==
  RanWholeFile =>
    \A i \in 1..Len(Tree) :
      LongExportedFunction(Tree[i]) =>
        LET n == Tree[i]
        IN  /\ LineAt(OutputLines, n.start.line) = InputLines[n.start.line]
            /\ Cardinality({l \in n.body.start.line..n.body.end.line :
                              HasMarker(LineAt(OutputLines, l))}) = 1
            /\ \A tok \in BodyTokens(InputLines, n.body) : ~Occurs(redacted, tok)

\* C7: every documentation comment line of the input stands unchanged at the
\* same line number of the output.
IsDocLine(line) == TrimStart(line) # <<>> /\ Head(TrimStart(line)) = "/**"

C7_DocLinesUnchanged ==
  RanRedactFile =>
    \A i \in 1..Len(InputLines) :
      IsDocLine(InputLines[i]) => LineAt(OutputLines, i) = InputLines[i]

\* C8: no two of the blocks the applier accepted and wrote have a line in
\* common.
C8_AppliedBlocksDisjoint ==
  (pc = "done" /\ text # <<>>) =>
    \A i, j \in 1..Len(appliedBlocks) :
      i # j => LineSet(appliedBlocks[i]) \cap LineSet(appliedBlocks[j]) = {}

\* Two blocks were written and a planned block that meets one of them was dropped.
C8_Witness ==
  /\ RanRedactFile
  /\ Cardinality({i \in 1..Len(appliedBlocks) :
                    BlockInRange(InputLines, appliedBlocks[i])}) >= 2
  /\ \E i \in 1..Len(blocks) :
       /\ \A j \in 1..Len(appliedBlocks) : appliedBlocks[j] # blocks[i]
       /\ \E j \in 1..Len(appliedBlocks) :
            LineSet(appliedBlocks[j]) \cap LineSet(blocks[i]) # {}

----------------------------------------------------------------------------
(* Properties of redactOutput.                                             *)

RanRedactOutput == pc = "done" /\ op = "redactOutput"

\* Where the start tag ends and where the closing tag after it begins
\* (0-based; -1 when the tag is not there).
StartTagEnd(o) ==
  IF IndexOf(o, fileTag) = -1 THEN -1 ELSE IndexOf(o, fileTag) + Len(fileTag)
CloseTagAt(o) ==
  IF StartTagEnd(o) = -1 \/ IndexOf(SliceFrom(o, StartTagEnd(o)), closeTag) = -1 THEN -1
  ELSE StartTagEnd(o) + IndexOf(SliceFrom(o, StartTagEnd(o)), closeTag)

\* The lines between the two tags; none when a tag is missing.
SectionLines(o) ==
  IF CloseTagAt(o) = -1 THEN <<>> ELSE Split(SubSeq(o, StartTagEnd(o) + 1, CloseTagAt(o)))

\* A line that starts with digits, a bar and a space.
IsNumbered(line) ==
  LET d == LeadingDigits(line)
  IN  d >= 1 /\ Len(line) >= d + 2 /\ line[d + 1] = "|" /\ line[d + 2] = SP

StartTagMissing(o) == IndexOf(o, fileTag) = -1
CloseTagMissing(o) == IndexOf(o, closeTag) = -1
NoNumberedLine(o) == \A i \in 1..Len(SectionLines(o)) : ~IsNumbered(SectionLines(o)[i])

\* The integrity check fails on the redacted text r: r has fewer lines than
\* the window's end, or the lines of r numbered within the window are not as
\* many as the prefixed lines.
IntegrityFails(o, r) ==
  LET data == ParseData(SectionLines(o))
      w == lineWindow(data[1], data[Len(data)])
      n == Len(Split(r))
  IN  /\ data # <<>>
      /\ w # NoWindow
      /\ \/ n < w.end
         \/ Cardinality({i \in 1..n : w.start <= i /\ i <= w.end}) # Len(data)

\* C9: redactOutput returns nothing when the start tag or the closing tag is
\* missing, when no line of the section has a numeric prefix, when the file
\* cannot be read, or when the integrity check fails.
C9_AbstainsOnBadInput ==
  RanRedactOutput =>
    (( \/ StartTagMissing(output)
       \/ CloseTagMissing(output)
       \/ NoNumberedLine(output)
       \/ readError
       \/ (text # <<>> /\ IntegrityFails(output, redacted)) )
      => returned = Absent)

\* The file was read and has the window's lines, but the slice and the
\* prefixed lines differ in number.
C9_Witness ==
  /\ RanRedactOutput
  /\ text # <<>>
  /\ ~readError
  /\ window.start >= 1
  /\ Len(OutputLines) >= window.end
  /\ IntegrityFails(output, redacted)
  /\ returned = Absent

\* C10: a returned text has the input's text up to the end of the start tag
\* and from the closing tag on, the same number of section lines, the input's
\* prefix on every prefixed line and the input's trailing lines.
C10_FrameKept ==
  (RanRedactOutput /\ returned.defined) =>
    LET r == returned.text
        inSec == SectionLines(output)
        outSec == SectionLines(r)
        data == ParseData(inSec)
    IN  /\ StartTagEnd(r) = StartTagEnd(output)
        /\ SubSeq(r, 1, StartTagEnd(r)) = SubSeq(output, 1, StartTagEnd(output))
        /\ CloseTagAt(r) # -1
        /\ SliceFrom(r, CloseTagAt(r)) = SliceFrom(output, CloseTagAt(output))
        /\ Len(outSec) = Len(inSec)
        /\ \A i \in 1..Len(inSec) :
             IF i <= Len(data)
             THEN SubSeq(LineAt(outSec, i), 1, Len(data[i])) = data[i]
             ELSE LineAt(outSec, i) = inSec[i]

\* A returned text that differs from the input, with two prefixed lines, a
\* trailing line and text around the tags.
C10_Witness ==
  /\ RanRedactOutput
  /\ returned.defined
  /\ returned.text # output
  /\ Len(ParseData(SectionLines(output))) >= 2
  /\ Len(SectionLines(output)) > Len(ParseData(SectionLines(output)))
  /\ StartTagEnd(output) > Len(fileTag)
  /\ \E i \in 1..Len(OutputLines) : HasMarker(OutputLines[i]) /\ i >= window.start /\ i <= window.end

\* C11: in a returned text, the content after the prefix numbered n is line n
\* of the redacted file, for every prefixed line of the section.
ContentAfterPrefix(line, prefix) == SubSeq(line, Len(prefix) + 1, Len(line))

C11_ContentAligned ==
  (RanRedactOutput /\ returned.defined) =>
    LET data == ParseData(SectionLines(output))
        outSec == SectionLines(returned.text)
    IN  \A i \in 1..Len(data) :
          parseLinePrefix(data[i]) # NoNumber =>
            ContentAfterPrefix(LineAt(outSec, i), data[i])
              = LineAt(OutputLines, parseLinePrefix(data[i]))

----------------------------------------------------------------------------
(* Properties of the tree cache.                                           *)

\* The calls for the path p, and the call for p before call i (0: none).
CallsFor(p) == {i \in 1..Len(history) : history[i].path = p}
LastCallFor(p) == CHOOSE i \in CallsFor(p) : \A j \in CallsFor(p) : j <= i
PreviousCall(i) ==
  LET before == {j \in CallsFor(history[i].path) : j < i}
  IN  IF before = {} THEN 0 ELSE CHOOSE j \in before : \A k \in before : k <= j

\* The calls whose text is not the text of the call before them for their path.
ChangingCalls ==
  {i \in 1..Len(history) :
     PreviousCall(i) = 0 \/ history[PreviousCall(i)].text # history[i].text}

\* C12: a call with the text of the previous call for its path returns the
\* cached tree without a parse, any other call parses and replaces the entry;
\* the cache has one entry for each path used, with the text of the path's
\* most recent call.
C12_CacheFollowsCalls ==
  /\ parses = Cardinality(ChangingCalls)
  /\ \A p \in Paths :
       /\ cache[p].present <=> CallsFor(p) # {}
       /\ CallsFor(p) # {} =>
            /\ cache[p].text = history[LastCallFor(p)].text
            /\ cache[p].file = Parse(history[LastCallFor(p)].text)
  /\ history # <<>> => tree = cache[history[Len(history)].path].file

\* The calls t1, t2, t1 for one path, each of them a parse.
C12_Witness ==
  /\ op = "sourceFile"
  /\ Len(history) = 3
  /\ history[1].path = history[2].path
  /\ history[2].path = history[3].path
  /\ history[1].text = history[3].text
  /\ history[1].text # history[2].text
  /\ parses = 3

----------------------------------------------------------------------------
(* Properties of the edits.                                                *)

\* The inline edits planned for line l, and those no other edit of the line
\* contains.
InlineOn(l) == {inline[i] : i \in {j \in 1..Len(inline) : inline[j].line = l}}
ContainsEdit(a, b) == a # b /\ a.start <= b.start /\ b.end <= a.end
Outermost(l) == {e \in InlineOn(l) : ~\E f \in InlineOn(l) : ContainsEdit(f, e)}

\* The line from column col on, with the column range of each of the edits
\* replaced by the edit's text.
RECURSIVE ReplaceFrom(_, _, _)
ReplaceFrom(line, col, edits) ==
  IF edits = {} THEN SubSeq(line, col, Len(line))
  ELSE LET e == CHOOSE x \in edits : \A y \in edits : x.start <= y.start
       IN  SubSeq(line, col, e.start - 1) \o e.text
             \o ReplaceFrom(line, e.end, edits \ {e})

\* A line no line replacement and no written block touches.
OnlyInline(l) ==
  /\ \A i \in 1..Len(replace) : replace[i].line # l
  /\ \A i \in 1..Len(appliedBlocks) : l \notin LineSet(appliedBlocks[i])

\* C16: a line with inline edits comes out as the input line with the column
\* range of each edit replaced by the edit's marker.
C16_InlineEditsReplaceRanges ==
  RanWholeFile =>
    \A l \in 1..Len(InputLines) :
      (InlineOn(l) # {} /\ OnlyInline(l)) =>
        LineAt(OutputLines, l) = ReplaceFrom(InputLines[l], 1, Outermost(l))

\* C17: for a redacted body of exactly two lines, the opening line comes out
\* with the line marker inserted right after the body's opening brace and the
\* closing line comes out unchanged.
TwoLineBody(n) ==
  n.body.kind = "Block" /\ n.body.end.line = n.body.start.line + 1 /\ IsRedacted(n)

MarkerAfterBrace(line, column) ==
  SubSeq(line, 1, column) \o <<SP>> \o hiddenLine \o SubSeq(line, column + 1, Len(line))

C17_TwoLineBody ==
  RanWholeFile =>
    \A i \in 1..Len(Tree) :
      TwoLineBody(Tree[i]) =>
        LET body == Tree[i].body
        IN  /\ LineAt(OutputLines, body.start.line)
                 = MarkerAfterBrace(InputLines[body.start.line], body.start.column)
            /\ LineAt(OutputLines, body.end.line) = InputLines[body.end.line]

\* A redacted body of three or more lines, and the block edit planned for it.
LongBody(n) ==
  n.body.kind = "Block" /\ n.body.end.line - n.body.start.line >= 2 /\ IsRedacted(n)
BodyBlocks(n) ==
  LET planned == PlanNode(n, InputLines, EmptyPlan).blocks
  IN  {planned[i] : i \in 1..Len(planned)}
BlockAccepted(n) ==
  \E i \in 1..Len(appliedBlocks) : appliedBlocks[i] \in BodyBlocks(n)

\* C18: for a body of three or more lines whose block edit is accepted, the
\* line after the opening line is the indented marker, every other line after
\* it up to and including the closing line is empty, and the opening line is
\* unchanged.
C18_LongBodyThroughClosing ==
  RanRedactFile =>
    \A i \in 1..Len(Tree) :
      (LongBody(Tree[i]) /\ BlockAccepted(Tree[i])) =>
        LET body == Tree[i].body
            anchor == body.start.line + 1
        IN  /\ LineAt(OutputLines, anchor) = Indent(InputLines[anchor]) \o hiddenLine
            /\ \A l \in (anchor + 1)..body.end.line : LineAt(OutputLines, l) = <<>>
            /\ LineAt(OutputLines, body.start.line) = InputLines[body.start.line]

\* A line no line replacement and no inline edit is planned for.
NoLineEditOn(l) ==
  /\ \A i \in 1..Len(replace) : replace[i].line # l
  /\ \A i \in 1..Len(inline) : inline[i].line # l

\* C18, amended: the line after the opening line is the indented marker and
\* every other line after it up to, but not including, the closing line is
\* empty; the opening line and the closing line are unchanged where no
\* line replacement or inline edit is planned for them.
C18_LongBodyInterior ==
  RanRedactFile =>
    \A i \in 1..Len(Tree) :
      (LongBody(Tree[i]) /\ BlockAccepted(Tree[i])) =>
        LET body == Tree[i].body
            anchor == body.start.line + 1
        IN  /\ LineAt(OutputLines, anchor) = Indent(InputLines[anchor]) \o hiddenLine
            /\ \A l \in (anchor + 1)..(body.end.line - 1) : LineAt(OutputLines, l) = <<>>
            /\ \A l \in {body.start.line, body.end.line} :
                 NoLineEditOn(l) => LineAt(OutputLines, l) = InputLines[l]

\* A body of four lines whose block was written: marker, blank, and the
\* closing line as it was.
C18_Witness ==
  /\ RanRedactFile
  /\ \E i \in 1..Len(Tree) :
       /\ LongBody(Tree[i])
       /\ BlockAccepted(Tree[i])
       /\ Tree[i].body.end.line - Tree[i].body.start.line >= 3
       /\ NoLineEditOn(Tree[i].body.end.line)
       /\ LineAt(OutputLines, Tree[i].body.end.line) # <<>>
       /\ LineAt(OutputLines, Tree[i].body.end.line - 1) = <<>>
       /\ HasMarker(LineAt(OutputLines, Tree[i].body.start.line + 1))

\* The bodies of the tree, and the number of edits of a plan.
BlockBodies == {Tree[i].body : i \in {j \in 1..Len(Tree) : Tree[j].body.kind = "Block"}}
EditCount(plan) == Len(plan.inline) + Len(plan.replace) + Len(plan.blocks)
Priorities == 1..3

\* C19: redactBlock plans one edit for a body, chosen by the body's line
\* span: an inline edit over the columns between the braces for one line, a
\* line replacement on the opening line for two lines, a block edit from the
\* line after the opening line to the line before the closing line for three
\* or more.
C19_OneEditBySpan ==
  (pc = "done" /\ text # <<>>) =>
    \A body \in BlockBodies, priority \in Priorities :
      LET plan == redactBlock(body, InputLines, EmptyPlan, priority)
          first == body.start.line
          last == body.end.line
      IN  /\ EditCount(plan) = 1
          /\ first = last =>
               /\ Len(plan.inline) = 1
               /\ plan.inline[1].line = first
               /\ plan.inline[1].start = body.start.column + 1
               /\ plan.inline[1].end = body.end.column - 1
               /\ InputLines[first][plan.inline[1].start - 1] = "{"
               /\ InputLines[first][plan.inline[1].end] = "}"
          /\ last = first + 1 <=> Len(plan.replace) = 1
          /\ last = first + 1 => plan.replace[1].line = first
          /\ last >= first + 2 =>
               plan.blocks = <<[start |-> first + 1, end |-> last - 1,
                                line |-> first + 1, priority |-> priority]>>

\* A file with a two-line body and a three-line body, both redacted.
C19_Witness ==
  /\ RanWholeFile
  /\ \E a, b \in BlockBodies :
       /\ a.end.line = a.start.line + 1
       /\ b.end.line = b.start.line + 2
  /\ Len(replace) = 1
  /\ Len(blocks) = 1
  /\ blocks[1].start = blocks[1].end

\* The priority the code gives, and the priority the list of the
\* specification gives, to the blocks planned for a node.
MemberKinds == {"MethodDeclaration", "Constructor", "GetAccessor", "SetAccessor"}

CodePriority(n) ==
  CASE n.kind \in {"FunctionDeclaration", "ExportAssignment", "PropertyDeclaration"}
         \cup MemberKinds -> 3
    [] n.kind \in {"VariableDeclaration", "FunctionExpression"} -> 2
    [] n.kind = "ArrowFunction" -> 1

ListedPriority(n) ==
  CASE n.kind \in {"FunctionDeclaration", "ExportAssignment"} \cup MemberKinds -> 3
    [] n.kind \in {"VariableDeclaration", "PropertyDeclaration"} -> 2
    [] n.kind \in {"ArrowFunction", "FunctionExpression"} -> 1

PlannedBlocks == {blocks[i] : i \in 1..Len(blocks)}

----------------------------------------------------------------------------
(* Properties of the plugin's hooks.                                       *)

ReadHook == event.hook = "tool.execute.after" /\ event.tool = "read"
TransformHook == event.hook = "experimental.chat.messages.transform"
WroteBefore == <<event.session, resolve(event.path)>> \in wroteFiles

\* C13: after a write of a file in a session, the read outputs, the inline
\* read outputs and the attachments of that file in that session are left
\* as they are by both hooks.
C13_WrittenNeverRedacted ==
  ((ReadHook \/ TransformHook) /\ WroteBefore) => ~result.modified

\* options.blackbox of the agent is the boolean true.
StrictlyBlackbox(name) == Listed(name) /\ AgentList[name].blackbox = True

\* C14: the hook of the read tool changes an output only if the agent of the
\* session's latest chat.message is listed with options.blackbox = true.
C14_LatestChatAgent ==
  (ReadHook /\ result.modified) => StrictlyBlackbox(lastChat[event.session].agent)

\* C14, amended: the hook of the read tool changes an output only if the
\* agent of the session's latest chat.message that named an agent is listed
\* with options.blackbox = true; with no such message, an agent that is not
\* listed or an agent without the option, the output and the metadata stay.
C14_LatestNamedAgent ==
  ReadHook =>
    LET named == lastChat[event.session].named
    IN  /\ result.modified => StrictlyBlackbox(named)
        /\ (named = NoAgent \/ ~Listed(named) \/ ~StrictlyBlackbox(named)) =>
             result = Unmodified

\* A read changed in a session whose latest chat.message named no agent,
\* while the other session's agent has the option as a string.
C14_Witness ==
  /\ ReadHook
  /\ result.modified /\ result.redacted
  /\ lastChat[event.session].agent = Null
  /\ StrictlyBlackbox(lastChat[event.session].named)
  /\ \E s \in Sessions : s # event.session /\ lastChat[s].named = "quoted"

\* The entries of options.blackboxAllow, trimmed, the empty ones left out.
AllowEntries(name) ==
  LET raw == AgentList[name].blackboxAllow
      given == IF raw.type = "array" THEN {raw.items[i] : i \in 1..Len(raw.items)}
               ELSE IF raw.type = "string"
                 THEN LET parts == SplitOn(raw.value, ",")
                      IN  {parts[i] : i \in 1..Len(parts)}
               ELSE {}
  IN  {Trim(e) : e \in given} \ {<<>>}

DefaultPatterns ==
  {<<"**", "/", "*", ".", "test", ".", "{ts,tsx}">>, <<"**", "/", "tests", "/", "**">>}

HasGlob(globs, pattern) == \E i \in 1..Len(globs) : globs[i] = Glob(pattern)

\* C15: a read whose normalized path matches a glob of the agent's allowlist
\* is not redacted; the allowlist of every agent has the two defaults and
\* the trimmed non-empty entries of options.blackboxAllow; an empty list of
\* globs matches no path.
C15_AllowlistedNeverRedacted ==
  /\ ReadHook =>
       ((\E i \in 1..Len(parseAllowed(event.agent)) :
            GlobMatch(parseAllowed(event.agent)[i], normalize(event.path)))
          => result = Unmodified)
  /\ \A name \in AgentNames :
       /\ \A pattern \in AllowEntries(name) \cup DefaultPatterns :
            HasGlob(parseAllowed(name), pattern)
       /\ allowCache[name].present =>
            \A pattern \in AllowEntries(name) \cup DefaultPatterns :
              HasGlob(allowCache[name].globs, pattern)
  /\ \A p \in ReadTitles : ~matchesAny(normalize(p), <<>>)

\* A read of lib/c.ts, which only the entry "lib/**" of the agent's
\* comma-separated string matches, left as it was for a blackbox agent.
C15_Witness ==
  /\ ReadHook
  /\ event.agent = "bbStr"
  /\ event.path = <<"lib", "/", "c", ".", "ts">>
  /\ ~matchesAny(normalize(event.path), [i \in 1..Len(defaults) |-> Glob(defaults[i])])
  /\ allowCache["bbStr"].present
  /\ result = Unmodified

----------------------------------------------------------------------------
(* Properties of the overlap resolution.                                   *)

WindowedNow == Windowed(InputLines, window)
Intersecting == {b \in PlannedBlocks : b.end >= WindowedNow.start /\ b.start <= WindowedNow.end}
Accepted == {appliedBlocks[i] : i \in 1..Len(appliedBlocks)}

\* a is not after b in the order of consideration.
NotAfter(a, b) ==
  a.priority > b.priority \/ (a.priority = b.priority /\ a.start <= b.start)

\* C21: the blocks that intersect the window are accepted in the order of
\* priority descending, then start ascending, and a block is dropped only
\* for an accepted block that intersects it and is not after it in that order.
C21_ResolutionOrder ==
  RanRedactFile =>
    /\ Accepted \subseteq Intersecting
    /\ \A i, j \in 1..Len(appliedBlocks) :
         i < j => NotAfter(appliedBlocks[i], appliedBlocks[j])
    /\ \A b \in Intersecting \ Accepted :
         \E a \in Accepted : rangesOverlap(a, b) /\ NotAfter(a, b)
    /\ \A a, b \in Intersecting :
         (rangesOverlap(a, b) /\ a.priority > b.priority /\ b \in Accepted) =>
           \E c \in Accepted : rangesOverlap(c, a) /\ NotAfter(c, a)

\* A block of priority 1 dropped for the block of priority 2 on its lines.
C21_Witness ==
  /\ RanRedactFile
  /\ \E b \in Intersecting \ Accepted :
       \E a \in Accepted : rangesOverlap(a, b) /\ a.priority > b.priority

----------------------------------------------------------------------------
(* Properties of the window.                                               *)

InWindow(i) == WindowedNow.start <= i /\ i <= WindowedNow.end
Straddles(b) == b \in Intersecting /\ ~(InWindow(b.start) /\ InWindow(b.end))
Written == {b \in Accepted : BlockInRange(InputLines, b)}

----------------------------------------------------------------------------
(* Properties of the initializers.                                         *)

\* A redacted variable or class property whose initializer ends on a later
\* line than its assignment operator.
LongInitializer(n) ==
  /\ n.kind \in {"VariableDeclaration", "PropertyDeclaration"}
  /\ IsRedacted(n)
  /\ n.equals # NoPos /\ n.initEnd # NoPos
  /\ n.equals.line # n.initEnd.line

\* The two line replacements of a long initializer.
InitializerReplacements(n) ==
  LET first == InputLines[n.equals.line]
      last == InputLines[n.initEnd.line]
  IN  <<[line |-> n.equals.line,
         text |-> TrimEnd(SubSeq(first, 1, n.equals.column - 1))
                    \o <<"=", SP>> \o hiddenInline],
        [line |-> n.initEnd.line,
         text |-> Indent(last) \o TrimStart(SubSeq(last, n.initEnd.column, Len(last)))]>>

InitializerBlock(n, priority) ==
  [start |-> n.equals.line + 1, end |-> n.initEnd.line - 1, line |-> n.equals.line + 1,
   priority |-> priority]

ThreeEdits(n, priority) ==
  LET plan == PlanNode(n, InputLines, EmptyPlan)
  IN  /\ plan.inline = <<>>
      /\ plan.replace = InitializerReplacements(n)
      /\ plan.blocks = <<InitializerBlock(n, priority)>>
      /\ \A i \in 1..2 : \E k \in 1..Len(replace) : replace[k] = plan.replace[i]
      /\ InitializerBlock(n, priority) \in PlannedBlocks

----------------------------------------------------------------------------
(* Properties of the default exports.                                      *)

DefaultExport(n) == n.kind = "ExportAssignment" /\ n.expr.kind # "None"
WrapsBlock(n) ==
  n.expr.kind \in {"ArrowFunction", "FunctionExpression"} /\ n.body.kind = "Block"

\* C24: every default-export expression is redacted: the block body of the
\* function or arrow function it wraps, or else the expression itself.
C24_EveryDefaultRedacted ==
  RanRedactFile =>
    \A i \in 1..Len(Tree) :
      DefaultExport(Tree[i]) =>
        /\ IsRedacted(Tree[i])
        /\ PlanNode(Tree[i], InputLines, EmptyPlan) =
             IF WrapsBlock(Tree[i])
               THEN redactBlock(Tree[i].body, InputLines, EmptyPlan, 3)
             ELSE redactExpression(Tree[i].expr, InputLines, EmptyPlan, 3)

\* C24, amended: a default export that wraps a function or an arrow function
\* with a block body has that body redacted, an arrow function with an
\* expression body is redacted as an expression, and a default export of
\* another kind gets no edit and keeps its lines.
C24_FunctionDefaultsRedacted ==
  RanRedactFile =>
    \A i \in 1..Len(Tree) :
      LET n == Tree[i]
          plan == PlanNode(n, InputLines, EmptyPlan)
      IN  DefaultExport(n) =>
            /\ WrapsBlock(n) =>
                 /\ plan = redactBlock(n.body, InputLines, EmptyPlan, 3)
                 /\ EditCount(plan) = 1
            /\ (n.expr.kind = "ArrowFunction" /\ ~WrapsBlock(n)) =>
                 /\ plan = redactExpression(n.expr, InputLines, EmptyPlan, 3)
                 /\ EditCount(plan) = 1
            /\ n.expr.kind \notin {"ArrowFunction", "FunctionExpression"} =>
                 /\ plan = EmptyPlan
                 /\ window = NoWindow =>
                      \A l \in n.start.line..n.end.line : OutputLines[l] = InputLines[l]

\* A default export of an identifier, left as it is, in a file whose other
\* declaration is redacted.
C24_Witness ==
  /\ RanWholeFile
  /\ \E i \in 1..Len(Tree) :
       /\ DefaultExport(Tree[i])
       /\ Tree[i].expr.kind = "Identifier"
       /\ OutputLines[Tree[i].start.line] = InputLines[Tree[i].start.line]
  /\ OutputLines # InputLines

----------------------------------------------------------------------------
(* Properties of the line replacements.                                    *)

\* C25: no planned line replacement is on a line of an accepted block, so
\* the replacements, applied after the blocks, leave the marker lines and
\* the blank lines of the blocks as they are.
C25_ReplaceOutsideBlocks ==
  RanRedactFile =>
    \A k \in 1..Len(replace) :
      \A b \in Accepted : ~(b.start <= replace[k].line /\ replace[k].line <= b.end)

-----------------------------------------------------------------------------
(* Properties of the block validation.                                    *)

RanApplyEdits == pc = "done" /\ op = "applyEdits"

\* The blocks in the order applyEdits considers them.
Considered == FilterBlocks(blocks, WindowedNow)

CoveredByWritten(i) == \E b \in Written : b.start <= i /\ i <= b.end

\* The positions of Considered, among the first n, whose block intersects no
\* block at an earlier position of the list: ranges only, valid or not.
RECURSIVE AcceptedPositions(_)
AcceptedPositions(n) ==
  IF n = 0 THEN <<>>
  ELSE LET before == AcceptedPositions(n - 1)
       IN  IF \E k \in 1..Len(before) : rangesOverlap(Considered[before[k]], Considered[n])
           THEN before
           ELSE Append(before, n)

AcceptedAt == AcceptedPositions(Len(Considered))
IsAcceptedAt(i) == \E k \in 1..Len(AcceptedAt) : AcceptedAt[k] = i

\* C27: a block is recorded as accepted before its range is validated. The
\* accepted blocks are those that intersect no block accepted before them,
\* whatever their ranges; an accepted block that is empty or reaches outside
\* the file changes no line, so every line no valid accepted block covers is
\* unchanged; and every block considered after an accepted empty or
\* out-of-range block that intersects it under rangesOverlap is dropped.
C27_InvalidBlockShadows ==
  RanApplyEdits =>
    /\ appliedBlocks = [k \in 1..Len(AcceptedAt) |-> Considered[AcceptedAt[k]]]
    /\ Len(OutputLines) = Len(InputLines)
    /\ \A i \in 1..Len(InputLines) : ~CoveredByWritten(i) => OutputLines[i] = InputLines[i]
    /\ \A i \in 1..Len(Considered) : \A j \in (i + 1)..Len(Considered) :
         ( /\ IsAcceptedAt(i)
           /\ ~BlockInRange(InputLines, Considered[i])
           /\ rangesOverlap(Considered[i], Considered[j]) )
         => ~IsAcceptedAt(j)

\* An empty block is accepted first and a block of the file's lines that
\* intersects it is dropped: no line changes.
C27_Witness ==
  /\ RanApplyEdits
  /\ Len(Considered) = 2
  /\ Considered[1].start > Considered[1].end
  /\ appliedBlocks = <<Considered[1]>>
  /\ BlockInRange(InputLines, Considered[2])
  /\ rangesOverlap(Considered[1], Considered[2])
  /\ OutputLines = InputLines

\* The same with a first block that ends after the last line.
C27_OutOfRangeCase ==
  /\ RanApplyEdits
  /\ Len(Considered) = 2
  /\ Considered[1].start <= Considered[1].end
  /\ Considered[1].end > Len(InputLines)
  /\ appliedBlocks = <<Considered[1]>>
  /\ BlockInRange(InputLines, Considered[2])
  /\ OutputLines = InputLines

-----------------------------------------------------------------------------
(* Properties of the window against the whole file.                       *)

\* C28: a line inside the window is redacted as redactFile without a window
\* redacts it: line i of redactFile(p, t, w) is line i of redactFile(p, t)
\* for every i inside w.
C28_WindowKeepsLines ==
  RanRedactFile =>
    \A whole \in {Split(redactFile(FreshCache(filePath), filePath, text, NoWindow).redacted)} :
      /\ Len(whole) = Len(OutputLines)
      /\ \A i \in 1..Len(OutputLines) : InWindow(i) => OutputLines[i] = whole[i]

\* A window that filters out a planned block overlapping a block it keeps:
\* the kept block is accepted and written, and the window's lines are those of
\* the whole-file redaction, which is a different text.
C28_Witness ==
  /\ RanRedactFile
  /\ window # NoWindow
  /\ \E a \in PlannedBlocks \ Intersecting : \E b \in Written : rangesOverlap(a, b)
  /\ \E i \in 1..Len(OutputLines) : InWindow(i) /\ OutputLines[i] # InputLines[i]
  /\ redacted # redactFile(FreshCache(filePath), filePath, text, NoWindow).redacted

-----------------------------------------------------------------------------
(* Properties of interleaved calls.                                       *)

\* Flow f has called redactFile and returned.
RanFlow(f) == flows[f].pc = "done" /\ flows[f].ranAt > 0

\* C26: a flow that has run returns what it would return running alone, from
\* an empty cache, on the text it read; it reparses when it finds another
\* text cached for its path, and it uses the cached tree only when the cached
\* text is its own.
C26_FlowsAsAlone ==
  \A f \in FlowNames :
    RanFlow(f) =>
      \A alone \in {redactFile(FreshCache(flows[f].path), flows[f].path, flows[f].text,
                               flows[f].window).redacted} :
        /\ flows[f].result = IF flows[f].op = "redactFile" THEN Returned(alone)
                             ELSE RebuildOutput(flows[f].output, alone)
        /\ (flows[f].found.present /\ flows[f].found.text # flows[f].text) => flows[f].parsed
        /\ ~flows[f].parsed => (flows[f].found.present /\ flows[f].found.text = flows[f].text)

\* A redactOutput flow is suspended at its read while another flow redacts a
\* different text under the same path; it then reads its own text, finds the
\* other one cached, reparses, and returns a redacted output.
C26_Witness ==
  \E f \in FlowNames, g \in FlowNames :
    /\ f # g
    /\ RanFlow(f) /\ RanFlow(g)
    /\ flows[f].op = "redactOutput"
    /\ flows[f].began < flows[g].ranAt /\ flows[g].ranAt < flows[f].ranAt
    /\ flows[g].path = flows[f].path
    /\ flows[g].text # flows[f].text
    /\ flows[f].found.present /\ flows[f].found.text = flows[g].text
    /\ flows[f].parsed
    /\ flows[f].result.defined
    /\ flows[f].result.text # flows[f].output

-----------------------------------------------------------------------------
(* Properties of the transform hook over a list of messages.              *)

RanTransformMessages == TransformHook /\ event.kind = "messages"
In == event.messages
Out == result.messages

\* Part k of message i was redacted: the attachment has a new url, or the
\* text has the redacted listing.
PartRedacted(i, k) ==
  \/ Out[i].parts[k].url # In[i].parts[k].url
  \/ Out[i].parts[k].redacted /\ ~In[i].parts[k].redacted

RedactedUpTo(i) == \E j \in 1..i : \E k \in 1..Len(In[j].parts) : PartRedacted(j, k)
OwnRedacted(i) == \E k \in 1..Len(In[i].parts) : PartRedacted(i, k)
TextParts(i) == {k \in 1..Len(In[i].parts) : In[i].parts[k].type = "text"}
Flagged(i) == \E k \in TextParts(i) : In[i].parts[k].redaction
FirstText(i) == CHOOSE k \in TextParts(i) : \A l \in TextParts(i) : k <= l

attachedNote == "Some attached files were redacted by opencode-blackbox."

\* Message i has the reminder at the end of its first text part, which now
\* carries the flag, and in no other part.
GotReminder(i) ==
  /\ Out[i].parts[FirstText(i)].text = In[i].parts[FirstText(i)].text \o reminderAttached
  /\ Out[i].parts[FirstText(i)].redaction
  /\ \A k \in 1..Len(In[i].parts) :
        k # FirstText(i) =>
          /\ ~Occurs(Out[i].parts[k].text, attachedNote)
          /\ Out[i].parts[k].redaction = In[i].parts[k].redaction

NoReminder(i) ==
  \A k \in 1..Len(In[i].parts) :
    /\ ~Occurs(Out[i].parts[k].text, attachedNote)
    /\ Out[i].parts[k].redaction = In[i].parts[k].redaction

\* C29: didRedact is shared by the messages of one call and never reset. A
\* message gets the reminder on its first text part when a part of it or of
\* a message before it was redacted, it has a text part, and none of its
\* text parts carries metadata.redaction; every other message, a flagged one
\* included, gets none.
C29_ReminderAfterFirstRedaction ==
  RanTransformMessages =>
    /\ Len(Out) = Len(In)
    /\ \A i \in 1..Len(In) :
         IF RedactedUpTo(i) /\ TextParts(i) # {} /\ ~Flagged(i)
         THEN GotReminder(i)
         ELSE NoReminder(i)

\* The first message has a redacted part; the second one has a text part, no
\* flag and no redacted part of its own, and gets the reminder.
C29_Witness ==
  /\ RanTransformMessages
  /\ Len(In) = 2
  /\ OwnRedacted(1)
  /\ ~OwnRedacted(2)
  /\ TextParts(2) # {} /\ ~Flagged(2)
  /\ GotReminder(2)

\* A flagged message after a redaction gets no second reminder.
C29_FlaggedCase ==
  /\ RanTransformMessages
  /\ Len(In) = 2
  /\ OwnRedacted(1)
  /\ Flagged(2)
  /\ Out[2] = In[2]

\* The user messages of the list, and whether the first one's agent has
\* options.blackbox === true.
UserMessages == {i \in 1..Len(In) : In[i].role = "user"}
FirstUserAgent ==
  IF UserMessages = {} THEN NoAgent
  ELSE In[CHOOSE i \in UserMessages : \A j \in UserMessages : i <= j].agent
FirstUserBlackbox ==
  /\ FirstUserAgent \in AgentNames
  /\ AgentList[FirstUserAgent].blackbox = True

\* Part k of message i is one the hook redacts for the agent: an attached
\* script of the disk outside the agent's allowlist, or the listing that
\* follows the read call of such a script.
EligiblePath(p, agent) ==
  /\ Extension(p) \in allowedExtensions
  /\ ~matchesAny(NormalizedPath(p), parseAllowed(agent))
  /\ OnDisk(resolve(p))
EligiblePart(i, k, agent) ==
  LET part == In[i].parts[k]
  IN  \/ part.type = "file" /\ EligiblePath(part.filename, agent)
      \/ /\ part.type = "text" /\ k > 1
         /\ In[i].parts[k - 1].type = "text"
         /\ In[i].parts[k - 1].text # <<>>
         /\ Head(In[i].parts[k - 1].text) = readPrefix
         /\ EligiblePath(ReadInputPath(Tail(In[i].parts[k - 1].text)), agent)
         /\ part.text = Listing

C30_PlainFirstCase ==
  /\ RanTransformMessages
  /\ Len(In) = 2
  /\ In[1].role = "user" /\ In[1].agent = "plain"
  /\ In[2].role = "user" /\ In[2].agent = "bbArr"
  /\ \E k \in 1..Len(In[2].parts) : In[2].parts[k].type = "file"
  /\ \A s \in Sessions : sessionToAgent[s] = "bbArr"
  /\ Out = In

====
